---------------------------- MODULE Spec2Model ----------------------------
(***************************************************************************)
(* A model of the Open Adventure engine (TypeScript port).                 *)
(*                                                                         *)
(* The engine is data driven: its tables (locations, objects, travel       *)
(* rules) are generated from adventure.yaml.  The model keeps the engine   *)
(* code as it is and runs it on reduced tables: a dozen locations, thirty  *)
(* one objects, a handful of travel rules per specification.  The reduced  *)
(* tables follow the layout the generator produces (index 0 is a dummy     *)
(* entry, the last rule of every location carries the stop flag, a rule    *)
(* without verbs has the motion HERE).                                     *)
(*                                                                         *)
(* Operators that model functions of the engine take and return a context  *)
(* record y = [g, out, st]: g is the GameState, out the messages printed   *)
(* so far, st the fate of the process ("run", "exit" after process.exit    *)
(* or a TerminateError, "fault" after bug() threw, "hung" when a loop      *)
(* never ends).  Once st is not "run" nothing further happens.             *)
(***************************************************************************)
EXTENDS Integers, Sequences, FiniteSets, TLC

\* ------------------------------------------------------------------------
\* Constants of types.ts
\* ------------------------------------------------------------------------
LCG_A == 1093
LCG_C == 221587
LCG_M == 1048576
TOKLEN == 5
INVLIMIT == 7
INTRANSITIVE == -1
GAMELIMIT == 330
WARNTIME == 30
FLASHTIME == 50
PANICTIME == 15
WORD_NOT_FOUND == -1
WORD_EMPTY == 0
PIT_KILL_PROB == 35
CARRIED == -1
STATE_NOTFOUND == -1
STATE_FOUND == 0
IS_FIXED == -1
IS_FREE == 0
SAVE_VERSION == 31
ADVENT_MAGIC == "open-adventure\n"
ENDIAN_MAGIC == 2317

\* PhaseCode
GO_TERMINATE == 0
GO_MOVE == 1
GO_TOP == 2
GO_CLEAROBJ == 3
GO_CHECKHINT == 4
GO_WORD2 == 5
GO_UNKNOWN == 6
GO_DWARFWAKE == 7

\* CondType and DestType of a travel rule
cond_goto == 0
cond_pct == 1
cond_carry == 2
cond_with == 3
cond_not == 4
dest_goto == 0
dest_special == 1
dest_speak == 2

\* Location condition bits
COND_LIT == 0
COND_OILY == 1
COND_FLUID == 2
COND_NOARRR == 3
COND_NOBACK == 4
COND_ABOVE == 5
COND_DEEP == 6
COND_FOREST == 7
COND_FORCED == 8
COND_HBASE == 11
COND_HCAVE == 12
COND_HMAZE == 15
COND_HDARK == 16

\* ------------------------------------------------------------------------
\* The reduced dungeon (what dungeon.generated.ts holds for these tables)
\* ------------------------------------------------------------------------
NLOCATIONS == 12
NOBJECTS == 31
NDWARVES == 6
NDEATHS == 3
NHINTS == 0
MAX_STATE == 3

LOC_NOWHERE == 0
LOC_START == 1
LOC_BUILDING == 2
LOC_DEBRIS == 3
LOC_ALCOVE == 4
LOC_PLOVER == 5
LOC_MAZEEND12 == 6
LOC_DEADEND13 == 7
LOC_Y2 == 8
LOC_NUGGET == 9
\* the two rooms of the repository
LOC_NE == 10
LOC_SW == 11
LOC_GIANTROOM == 12

NO_OBJECT == 0
LAMP == 1
GRATE == 2
CAGE == 3
BIRD == 4
BOTTLE == 5
WATER == 6
OIL == 7
EMERALD == 8
RUBY == 9
AXE == 10
CHEST == 11
MESSAG == 12
PYRAMID == 13
FISSURE == 14
TROLL == 15
TROLL2 == 16
CHASM == 17
BEAR == 18
CHAIN == 19
PLANT == 20
OYSTER == 21
ROD == 22
ROD2 == 23
DWARF == 24
SIGN == 25
SNAKE == 26
PILLOW == 27
MIRROR == 28
FOOD == 29
EGGS == 30
KEYS == 31

\* ObjState
LAMP_DARK == 0
LAMP_BRIGHT == 1
BIRD_UNCAGED == 0
BIRD_CAGED == 1
BIRD_FOREST_UNCAGED == 2
WATER_BOTTLE == 0
EMPTY_BOTTLE == 1
OIL_BOTTLE == 2
UNBRIDGED == 0
BRIDGED == 1
UNTAMED_BEAR == 0
SITTING_BEAR == 1
CONTENTED_BEAR == 2
BEAR_DEAD == 3
TROLL_UNPAID == 0
TROLL_PAIDONCE == 1
EGGS_HERE == 0
EGGS_VANISHED == 1
EGGS_DONE == 2
CHAIN_HEAP == 0
CHAINING_BEAR == 1
CHAIN_FIXED == 2
AXE_HERE == 0
AXE_LOST == 1
PLANT_THIRSTY == 0
INGAME_SIGN == 0
ENDGAME_SIGN == 1
SNAKE_BLOCKS == 0
SNAKE_CHASED == 1

\* Static object data: initial place, second place (or IS_FIXED), treasure.
\* Every object of the reduced table has inventory text.
WorldObjects ==
  [o \in 1..NOBJECTS |->
     CASE o = LAMP    -> [plac |-> LOC_BUILDING, fixd |-> IS_FREE, isTreasure |-> FALSE]
       [] o = GRATE   -> [plac |-> LOC_START, fixd |-> LOC_DEBRIS, isTreasure |-> FALSE]
       [] o = CAGE    -> [plac |-> LOC_BUILDING, fixd |-> IS_FREE, isTreasure |-> FALSE]
       [] o = BIRD    -> [plac |-> LOC_BUILDING, fixd |-> IS_FREE, isTreasure |-> FALSE]
       [] o = BOTTLE  -> [plac |-> LOC_BUILDING, fixd |-> IS_FREE, isTreasure |-> FALSE]
       [] o = WATER   -> [plac |-> LOC_NOWHERE, fixd |-> IS_FREE, isTreasure |-> FALSE]
       [] o = OIL     -> [plac |-> LOC_NOWHERE, fixd |-> IS_FREE, isTreasure |-> FALSE]
       [] o = EMERALD -> [plac |-> LOC_PLOVER, fixd |-> IS_FREE, isTreasure |-> TRUE]
       [] o = RUBY    -> [plac |-> LOC_DEBRIS, fixd |-> IS_FREE, isTreasure |-> TRUE]
       [] o = AXE     -> [plac |-> LOC_NOWHERE, fixd |-> IS_FREE, isTreasure |-> FALSE]
       [] o = CHEST   -> [plac |-> LOC_NOWHERE, fixd |-> IS_FREE, isTreasure |-> TRUE]
       [] o = MESSAG  -> [plac |-> LOC_NOWHERE, fixd |-> IS_FREE, isTreasure |-> FALSE]
       [] o = PYRAMID -> [plac |-> LOC_ALCOVE, fixd |-> IS_FREE, isTreasure |-> TRUE]
       [] o = FISSURE -> [plac |-> LOC_Y2, fixd |-> LOC_NUGGET, isTreasure |-> FALSE]
       [] o = TROLL   -> [plac |-> LOC_NUGGET, fixd |-> LOC_DEADEND13, isTreasure |-> FALSE]
       [] o = TROLL2  -> [plac |-> LOC_NOWHERE, fixd |-> IS_FIXED, isTreasure |-> FALSE]
       [] o = CHASM   -> [plac |-> LOC_NUGGET, fixd |-> LOC_DEADEND13, isTreasure |-> FALSE]
       [] o = BEAR    -> [plac |-> LOC_DEADEND13, fixd |-> IS_FIXED, isTreasure |-> FALSE]
       [] o = CHAIN   -> [plac |-> LOC_DEADEND13, fixd |-> IS_FIXED, isTreasure |-> TRUE]
       [] o = PLANT   -> [plac |-> LOC_Y2, fixd |-> IS_FIXED, isTreasure |-> FALSE]
       [] o = OYSTER  -> [plac |-> LOC_NOWHERE, fixd |-> IS_FREE, isTreasure |-> FALSE]
       [] o = ROD     -> [plac |-> LOC_Y2, fixd |-> IS_FREE, isTreasure |-> FALSE]
       [] o = ROD2    -> [plac |-> LOC_NOWHERE, fixd |-> IS_FREE, isTreasure |-> FALSE]
       [] o = DWARF   -> [plac |-> LOC_NOWHERE, fixd |-> IS_FIXED, isTreasure |-> FALSE]
       [] o = SIGN    -> [plac |-> LOC_NUGGET, fixd |-> IS_FIXED, isTreasure |-> FALSE]
       [] o = SNAKE   -> [plac |-> LOC_Y2, fixd |-> IS_FIXED, isTreasure |-> FALSE]
       [] o = PILLOW  -> [plac |-> LOC_NUGGET, fixd |-> IS_FREE, isTreasure |-> FALSE]
       [] o = FOOD    -> [plac |-> LOC_BUILDING, fixd |-> IS_FREE, isTreasure |-> FALSE]
       [] o = EGGS    -> [plac |-> LOC_GIANTROOM, fixd |-> IS_FREE, isTreasure |-> TRUE]
       [] o = KEYS    -> [plac |-> LOC_BUILDING, fixd |-> IS_FREE, isTreasure |-> FALSE]
       [] OTHER       -> [plac |-> LOC_MAZEEND12, fixd |-> LOC_Y2, isTreasure |-> FALSE]]

\* Static location data: the condition bits of the yaml, as a set of bits.
WorldConditions ==
  [l \in 0..NLOCATIONS |->
     CASE l = LOC_START    -> {COND_LIT, COND_ABOVE, COND_FLUID, COND_HCAVE}
       [] l = LOC_BUILDING -> {COND_LIT, COND_ABOVE, COND_FLUID}
       [] l = LOC_DEBRIS   -> {}
       [] l = LOC_ALCOVE   -> {COND_NOARRR, COND_NOBACK, COND_HDARK}
       [] l = LOC_PLOVER   -> {COND_LIT, COND_NOARRR, COND_HDARK}
       [] l = LOC_MAZEEND12 -> {COND_DEEP, COND_NOARRR, COND_HMAZE}
       [] l = LOC_DEADEND13 -> {COND_DEEP, COND_HMAZE}
       [] l = LOC_Y2        -> {COND_DEEP}
       [] l = LOC_NUGGET    -> {COND_DEEP}
       [] l = LOC_NE        -> {COND_LIT, COND_DEEP}
       [] l = LOC_SW        -> {COND_LIT, COND_DEEP}
       [] l = LOC_GIANTROOM -> {COND_DEEP}
       [] OTHER            -> {}]

dwarflocs ==
  <<LOC_DEADEND13, LOC_DEADEND13, LOC_DEADEND13, LOC_DEADEND13,
    LOC_DEADEND13, LOC_MAZEEND12>>

VARIABLES
  game,     \* the GameState object
  travel,   \* the travel table (index 0 is the dummy entry)
  tkey,     \* first travel rule of every location, 0 when it has none
  out,      \* what the last operation printed
  pc,       \* "prompt" at a turn boundary, else the fate of the process
  save,     \* the save file on disk (NoSave when there is none)
  call      \* the operation last applied and its arguments

vars == <<game, travel, tkey, out, pc, save, call>>

NoSave == [magic |-> "none"]
NoCall == [op |-> "none"]


\* ------------------------------------------------------------------------
\* JavaScript arithmetic: Math.trunc(a / b) and a % b round toward zero
\* ------------------------------------------------------------------------
JsTrunc(a, b) == IF a >= 0 THEN a \div b ELSE -((-a) \div b)
JsRem(a, b) == IF a >= 0 THEN a % b ELSE -((-a) % b)

\* ------------------------------------------------------------------------
\* The context record and its plumbing
\* ------------------------------------------------------------------------
\* eof: the input ends before the next answer to a question is read
Ctx(g) == [g |-> g, out |-> <<>>, st |-> "run", eof |-> FALSE]
Running(y) == y.st = "run"
\* A printed message: the name of the message and its integer arguments.
Message(m, args) == [msg |-> m, args |-> args]
speak(y, m, args) == IF Running(y) THEN [y EXCEPT !.out = Append(@, Message(m, args))] ELSE y
rspeak(y, m) == speak(y, m, <<>>)
SetG(y, g) == IF Running(y) THEN [y EXCEPT !.g = g] ELSE y
\* process.exit(0), or terminate() throwing TerminateError
exit(y) == IF Running(y) THEN [y EXCEPT !.st = "exit"] ELSE y
\* bug(): throws an Error that nothing catches; main() reports it and
\* leaves with exit code 1
bug(y, b) ==
  IF Running(y) THEN [y EXCEPT !.st = "fault", !.out = Append(@, Message(b, <<>>))] ELSE y

\* ------------------------------------------------------------------------
\* rng.ts
\* ------------------------------------------------------------------------
getNextLcgValue(g) == [g EXCEPT !.lcgX = JsRem(LCG_A * g.lcgX + LCG_C, LCG_M)]
\* the value randrange returns; the state moves on by getNextLcgValue
randrange(g, range) == JsTrunc(range * g.lcgX, LCG_M)
PCT(g, n) == randrange(g, 100) < n

RECURSIVE zzletters(_, _)
zzletters(g, n) ==
  IF n = 0 THEN <<>>
  ELSE <<65 + randrange(g, 26)>> \o zzletters(getNextLcgValue(g), n - 1)

RECURSIVE spin(_, _)
spin(g, n) == IF n = 0 THEN g ELSE spin(getNextLcgValue(g), n - 1)

\* the remainder is stored as the language gives it, with the sign of the seed
setSeed_signed(g, seedval) ==
  LET g1 == [g EXCEPT !.lcgX = JsRem(seedval, LCG_M)]
      zz == zzletters(g1, TOKLEN)
  IN [spin(g1, TOKLEN) EXCEPT !.zzword = [zz EXCEPT ![2] = 39]]

setSeed(g, seedval) ==
  LET x  == JsRem(seedval, LCG_M)
      g1 == [g EXCEPT !.lcgX = IF x < 0 THEN LCG_M + x ELSE x]
      zz == zzletters(g1, TOKLEN)
  IN [spin(g1, TOKLEN) EXCEPT !.zzword = [zz EXCEPT ![2] = 39]]

\* ------------------------------------------------------------------------
\* Macros of types.ts
\* ------------------------------------------------------------------------
TOTING(g, obj) == g.objects[obj].place = CARRIED
AT(g, obj) == g.objects[obj].place = g.loc \/ g.objects[obj].fixed = g.loc
HERE(g, obj) == AT(g, obj) \/ TOTING(g, obj)
PROP_STASHIFY(n) == -1 - n
PROP_IS_INVALID(val, maxState) == val < -maxState - 1 \/ val > maxState
OBJECT_IS_NOTFOUND(g, obj) == g.objects[obj].prop = STATE_NOTFOUND
OBJECT_IS_FOUND(g, obj) == g.objects[obj].prop = STATE_FOUND
OBJECT_SET_FOUND(g, obj) == [g EXCEPT !.objects[obj].prop = STATE_FOUND]
OBJECT_SET_NOT_FOUND(g, obj) == [g EXCEPT !.objects[obj].prop = STATE_NOTFOUND]
OBJECT_IS_STASHED(g, obj) == g.objects[obj].prop < STATE_NOTFOUND
OBJECT_STASHIFY(g, obj, pval) == [g EXCEPT !.objects[obj].prop = PROP_STASHIFY(pval)]
OBJECT_STATE_EQUALS(g, obj, pval) ==
  g.objects[obj].prop = pval \/ g.objects[obj].prop = PROP_STASHIFY(pval)
\* of the four gemstones the reduced table has the emerald and the ruby
GSTONE(obj) == obj = EMERALD \/ obj = RUBY

\* Location conditions.  initialise() ors COND_FORCED into conditions[i]
\* when the first travel rule of location i has the motion HERE.
conditions(l) ==
  WorldConditions[l] \cup
    (IF l >= 1 /\ tkey[l] # 0 /\ travel[tkey[l]].motion = "HERE"
     THEN {COND_FORCED} ELSE {})
CNDBIT(l, bit) == bit \in conditions(l)
FORCED(l) == CNDBIT(l, COND_FORCED)
FOREST(l) == CNDBIT(l, COND_FOREST)
OUTSIDE(l) == CNDBIT(l, COND_ABOVE) \/ FOREST(l)
INDEEP(l) == CNDBIT(l, COND_DEEP)

\* ------------------------------------------------------------------------
\* object-manipulation.ts
\* ------------------------------------------------------------------------
\* The scan of carry(): temp walks the chain until link[temp] is the
\* object.  link[] is finite, so a walk of more steps than link[] has
\* entries is in a cycle that does not hold the object and never ends;
\* NoPred stands for that.
NoPred == 0 - 1
ScanFuel == 2 * NOBJECTS + 1

RECURSIVE scan(_, _, _, _)
scan(link, temp, object, fuel) ==
  IF link[temp] = object THEN temp
  ELSE IF fuel = 0 THEN NoPred
  ELSE scan(link, link[temp], object, fuel - 1)

\* carry() without the unlinking: the object is marked carried and stays on
\* its chain
carry_linked(y, object, where) ==
  IF ~Running(y) THEN y
  ELSE IF object <= NOBJECTS /\ y.g.objects[object].place = CARRIED THEN y
  ELSE IF object <= NOBJECTS
  THEN SetG(y, [y.g EXCEPT !.objects[object].place = CARRIED,
                           !.holdng = IF object # BIRD THEN @ + 1 ELSE @])
  ELSE y

\* carry() counting the bird like any other object
carry_countsBird(y, object, where) ==
  IF ~Running(y) THEN y
  ELSE IF object <= NOBJECTS /\ y.g.objects[object].place = CARRIED THEN y
  ELSE
    LET g1 == IF object <= NOBJECTS
              THEN [y.g EXCEPT !.objects[object].place = CARRIED, !.holdng = @ + 1]
              ELSE y.g
    IN IF g1.locs[where].atloc = object
       THEN [y EXCEPT !.g = [g1 EXCEPT !.locs[where].atloc = g1.link[object]]]
       ELSE LET temp == scan(g1.link, g1.locs[where].atloc, object, ScanFuel)
            IN IF temp = NoPred
               THEN [y EXCEPT !.g = g1, !.st = "hung"]
               ELSE [y EXCEPT !.g = [g1 EXCEPT !.link[temp] = g1.link[object]]]

carry(y, object, where) ==
  IF ~Running(y) THEN y
  ELSE IF object <= NOBJECTS /\ y.g.objects[object].place = CARRIED THEN y
  ELSE
    LET g1 == IF object <= NOBJECTS
              THEN [y.g EXCEPT !.objects[object].place = CARRIED,
                               !.holdng = IF object # BIRD THEN @ + 1 ELSE @]
              ELSE y.g
    IN IF g1.locs[where].atloc = object
       THEN [y EXCEPT !.g = [g1 EXCEPT !.locs[where].atloc = g1.link[object]]]
       ELSE LET temp == scan(g1.link, g1.locs[where].atloc, object, ScanFuel)
            IN IF temp = NoPred
               THEN [y EXCEPT !.g = g1, !.st = "hung"]
               ELSE [y EXCEPT !.g = [g1 EXCEPT !.link[temp] = g1.link[object]]]

drop(y, object, where) ==
  IF ~Running(y) THEN y
  ELSE
    LET g1 == IF object > NOBJECTS
              THEN [y.g EXCEPT !.objects[object - NOBJECTS].fixed = where]
              ELSE [y.g EXCEPT
                      !.holdng = IF y.g.objects[object].place = CARRIED /\ object # BIRD
                                 THEN @ - 1 ELSE @,
                      !.objects[object].place = where]
    IN IF where = LOC_NOWHERE \/ where = CARRIED
       THEN [y EXCEPT !.g = g1]
       ELSE [y EXCEPT !.g = [g1 EXCEPT !.link[object] = g1.locs[where].atloc,
                                       !.locs[where].atloc = object]]

move(y, object, where) ==
  IF ~Running(y) THEN y
  ELSE
    LET from == IF object > NOBJECTS THEN y.g.objects[object - NOBJECTS].fixed
                ELSE y.g.objects[object].place
    IN drop(IF from # LOC_NOWHERE /\ from # CARRIED THEN carry(y, object, from) ELSE y,
            object, where)

\* the second statement of put()
stashify(y, object, pval) == SetG(y, OBJECT_STASHIFY(y.g, object, pval))

put(y, object, where, pval) == stashify(move(y, object, where), object, pval)

juggle(y, object) ==
  IF ~Running(y) THEN y
  ELSE LET i == y.g.objects[object].place
           j == y.g.objects[object].fixed
       IN move(move(y, object, i), object + NOBJECTS, j)

destroy(y, object) == move(y, object, LOC_NOWHERE)

\* five dwarves are looked at whatever NDWARVES is
RECURSIVE atdwrfFrom(_, _, _, _)
atdwrfFrom(g, where, i, at) ==
  IF i > 5 THEN at
  ELSE IF g.dwarves[i].loc = where THEN i
  ELSE atdwrfFrom(g, where, i + 1, IF g.dwarves[i].loc # 0 THEN 0 ELSE at)

atdwrf(g, where) == IF g.dflag < 2 THEN 0 ELSE atdwrfFrom(g, where, 1, 0 - 1)

\* ------------------------------------------------------------------------
\* Travel tables
\* ------------------------------------------------------------------------
\* One TravelOp.  Motions and messages are named by strings.
Rule(motion, condtype, condarg1, condarg2, desttype, destval, stop) ==
  [motion |-> motion, condtype |-> condtype, condarg1 |-> condarg1,
   condarg2 |-> condarg2, desttype |-> desttype, destval |-> destval,
   nodwarves |-> FALSE, stop |-> stop]

\* the dummy entry the generator puts at index 0
DummyRule == Rule("NUL", cond_goto, 0, 0, dest_goto, LOC_NOWHERE, FALSE)

\* LOC_START: east (or enter) to the building.  LOC_BUILDING: west (or out)
\* to the road, xyzzy to the debris room.  LOC_DEBRIS: xyzzy back.
WorldTravel ==
  [i \in 0..5 |->
     CASE i = 1 -> Rule("EAST", cond_goto, 0, 0, dest_goto, LOC_BUILDING, FALSE)
       [] i = 2 -> Rule("ENTER", cond_goto, 0, 0, dest_goto, LOC_BUILDING, TRUE)
       [] i = 3 -> Rule("WEST", cond_goto, 0, 0, dest_goto, LOC_START, FALSE)
       [] i = 4 -> Rule("XYZZY", cond_goto, 0, 0, dest_goto, LOC_DEBRIS, TRUE)
       [] i = 5 -> Rule("XYZZY", cond_goto, 0, 0, dest_goto, LOC_BUILDING, TRUE)
       [] OTHER -> DummyRule]

WorldTkey ==
  [l \in 0..NLOCATIONS |->
     CASE l = LOC_START -> 1
       [] l = LOC_BUILDING -> 3
       [] l = LOC_DEBRIS -> 5
       [] OTHER -> 0]

\* ------------------------------------------------------------------------
\* init.ts
\* ------------------------------------------------------------------------
createGameState ==
  [lcgX |-> 0, abbnum |-> 5, bonus |-> "none",
   chloc |-> LOC_MAZEEND12, chloc2 |-> LOC_DEADEND13,
   clock1 |-> WARNTIME, clock2 |-> FLASHTIME,
   clshnt |-> FALSE, closed |-> FALSE, closng |-> FALSE, lmwarn |-> FALSE,
   novice |-> FALSE, panic |-> FALSE, wzdark |-> FALSE, blooded |-> FALSE,
   conds |-> 0, detail |-> 0, dflag |-> 0, dkill |-> 0, dtotal |-> 0,
   foobar |-> WORD_EMPTY, holdng |-> 0, igo |-> 0, iwest |-> 0, knfloc |-> 0,
   limit |-> GAMELIMIT, loc |-> LOC_START, newloc |-> LOC_START,
   numdie |-> 0, oldloc |-> 0, oldlc2 |-> 0, oldobj |-> 0, saved |-> 0,
   tally |-> 0, thresh |-> 0, seenbigwords |-> FALSE, trnluz |-> 0,
   turns |-> 0, zzword |-> <<>>,
   locs |-> [l \in 0..NLOCATIONS |-> [abbrev |-> 0, atloc |-> 0]],
   dwarves |-> [d \in 0..NDWARVES |-> [seen |-> 0, loc |-> 0, oldloc |-> 0]],
   objects |-> [o \in 0..NOBJECTS |-> [fixed |-> 0, prop |-> 0, place |-> 0]],
   hints |-> <<>>,
   link |-> [i \in 0..(2 * NOBJECTS) |-> 0]]

\* first loop of initialise(): the two-placed objects, last to first
RECURSIVE dropTwoPlaced(_, _)
dropTwoPlaced(y, i) ==
  IF i < 1 \/ ~Running(y) THEN y
  ELSE dropTwoPlaced(
         IF WorldObjects[i].fixd > 0
         THEN drop(drop(y, i + NOBJECTS, WorldObjects[i].fixd), i, WorldObjects[i].plac)
         ELSE y,
         i - 1)

\* second loop: fixed is set for all, the single-placed ones are dropped
RECURSIVE dropSinglePlaced(_, _)
dropSinglePlaced(y, k) ==
  IF k < 1 \/ ~Running(y) THEN y
  ELSE LET y1 == SetG(y, [y.g EXCEPT !.objects[k].fixed = WorldObjects[k].fixd])
       IN dropSinglePlaced(
            IF WorldObjects[k].plac # 0 /\ WorldObjects[k].fixd <= 0
            THEN drop(y1, k, WorldObjects[k].plac) ELSE y1,
            k - 1)

\* third loop: treasures are counted and start not found
RECURSIVE setTreasureProps(_, _)
setTreasureProps(y, object) ==
  IF object > NOBJECTS \/ ~Running(y) THEN y
  ELSE setTreasureProps(
         IF WorldObjects[object].isTreasure
         THEN SetG(y, OBJECT_SET_NOT_FOUND([y.g EXCEPT !.tally = @ + 1], object))
         ELSE SetG(y, OBJECT_SET_FOUND(y.g, object)),
         object + 1)

initialise(g, seedval) ==
  LET g1 == setSeed(g, seedval)
      g2 == [g1 EXCEPT !.dwarves = [d \in 0..NDWARVES |->
                          IF d >= 1 THEN [@[d] EXCEPT !.loc = dwarflocs[d]] ELSE @[d]],
                       !.objects = [o \in 0..NOBJECTS |->
                          IF o >= 1 THEN [@[o] EXCEPT !.place = LOC_NOWHERE] ELSE @[o]]]
      y3 == setTreasureProps(dropSinglePlaced(dropTwoPlaced(Ctx(g2), NOBJECTS), NOBJECTS), 1)
  IN [y3.g EXCEPT !.conds = 2 ^ COND_HBASE]

\* ------------------------------------------------------------------------
\* save.ts
\* ------------------------------------------------------------------------
\* structuredClone() and the JSON text copy integers, booleans, strings and
\* arrays of them exactly; a snapshot is the record of the game's fields.
savefile(g, version) ==
  [magic |-> ADVENT_MAGIC, version |-> version, canary |-> ENDIAN_MAGIC, game |-> g]

\* a recount that trusts the stored tally
tempTally_stored(valgame) == valgame.tally

\* the tally isValid() recomputes
tempTally(valgame) ==
  Cardinality({treasure \in 1..NOBJECTS :
                 /\ WorldObjects[treasure].isTreasure
                 /\ valgame.objects[treasure].prop = STATE_NOTFOUND})

isValid(valgame) ==
  /\ valgame.abbnum # 0
  /\ ~(valgame.lcgX >= LCG_M)
  /\ ~(\/ valgame.chloc < -1 \/ valgame.chloc > NLOCATIONS
       \/ valgame.chloc2 < -1 \/ valgame.chloc2 > NLOCATIONS
       \/ valgame.loc < 0 \/ valgame.loc > NLOCATIONS
       \/ valgame.newloc < 0 \/ valgame.newloc > NLOCATIONS
       \/ valgame.oldloc < 0 \/ valgame.oldloc > NLOCATIONS
       \/ valgame.oldlc2 < 0 \/ valgame.oldlc2 > NLOCATIONS)
  /\ \A i \in 0..NDWARVES :
       ~(\/ valgame.dwarves[i].loc < -1 \/ valgame.dwarves[i].loc > NLOCATIONS
         \/ valgame.dwarves[i].oldloc < -1 \/ valgame.dwarves[i].oldloc > NLOCATIONS)
  /\ \A i \in 0..NOBJECTS :
       ~(\/ valgame.objects[i].place < -1 \/ valgame.objects[i].place > NLOCATIONS
         \/ valgame.objects[i].fixed < -1 \/ valgame.objects[i].fixed > NLOCATIONS)
  /\ ~(\/ valgame.dtotal < 0 \/ valgame.dtotal > NDWARVES
       \/ valgame.dkill < 0 \/ valgame.dkill > NDWARVES)
  /\ ~(valgame.numdie >= NDEATHS)
  /\ ~(tempTally(valgame) # valgame.tally)
  /\ \A obj \in 0..NOBJECTS : ~PROP_IS_INVALID(valgame.objects[obj].prop, MAX_STATE)
  /\ \A loc \in 0..NLOCATIONS :
       ~(valgame.locs[loc].atloc < 0 \/ valgame.locs[loc].atloc > NOBJECTS * 2)
  /\ \A obj \in 0..(NOBJECTS * 2) :
       ~(valgame.link[obj] < 0 \/ valgame.link[obj] > NOBJECTS * 2)

restore_overwrites(y, sv) ==
  IF sv.magic # ADVENT_MAGIC \/ sv.canary # ENDIAN_MAGIC
  THEN SetG(rspeak(y, "BAD_SAVE"), sv.game)
  ELSE IF sv.version # SAVE_VERSION
  THEN SetG(speak(y, "VERSION_SKEW",
                  <<JsTrunc(sv.version, 10), JsRem(sv.version, 10),
                    JsTrunc(SAVE_VERSION, 10), JsRem(SAVE_VERSION, 10)>>), sv.game)
  ELSE IF ~isValid(sv.game)
  THEN exit(SetG(rspeak(y, "SAVE_TAMPERING"), sv.game))
  ELSE SetG(y, sv.game)

restore_versionFirst(y, sv) ==
  IF sv.version # SAVE_VERSION
  THEN speak(y, "VERSION_SKEW",
             <<JsTrunc(sv.version, 10), JsRem(sv.version, 10),
               JsTrunc(SAVE_VERSION, 10), JsRem(SAVE_VERSION, 10)>>)
  ELSE IF sv.magic # ADVENT_MAGIC \/ sv.canary # ENDIAN_MAGIC
  THEN rspeak(y, "BAD_SAVE")
  ELSE IF ~isValid(sv.game)
  THEN exit(rspeak(y, "SAVE_TAMPERING"))
  ELSE SetG(y, sv.game)

\* restore() returns GO_TOP whenever it returns
restore(y, sv) ==
  IF sv.magic # ADVENT_MAGIC \/ sv.canary # ENDIAN_MAGIC
  THEN rspeak(y, "BAD_SAVE")
  ELSE IF sv.version # SAVE_VERSION
  THEN speak(y, "VERSION_SKEW",
             <<JsTrunc(sv.version, 10), JsRem(sv.version, 10),
               JsTrunc(SAVE_VERSION, 10), JsRem(SAVE_VERSION, 10)>>)
  ELSE IF ~isValid(sv.game)
  THEN exit(rspeak(y, "SAVE_TAMPERING"))
  ELSE SetG(y, sv.game)

\* ------------------------------------------------------------------------
\* Specification SpecRestore: a session restores a save file
\* ------------------------------------------------------------------------
\* The seeds initialise() may draw (Math.random() scaled to 31 bits).
Seeds == {0, 20011, 2147483646}

\* Save files as cheat.ts writes them (a fresh game with numdie, limit,
\* saved, turns and the version set from the command line) and as an
\* editor of the JSON text can leave them: one field changed.
Edits ==
  [f : {"none"}, v : {0}]
  \cup [f : {"lcgX"}, v : {0 - LCG_M, 0 - 1, 0, LCG_M - 1, LCG_M, LCG_M + 1}]
  \cup [f : {"abbnum"}, v : {0, 1}]
  \cup [f : {"tally"}, v : 0..3]
  \cup [f : {"numdie"}, v : {0 - 900, 0 - 1000, 2000, NDEATHS - 1, NDEATHS}]
  \cup [f : {"turns", "saved", "limit"}, v : {0 - 1000, 7}]
  \cup [f : {"loc", "newloc", "oldloc", "oldlc2"}, v : {0 - 1, LOC_DEBRIS, NLOCATIONS + 1}]
  \cup [f : {"chloc", "chloc2"}, v : {0 - 2, 0 - 1, NLOCATIONS + 1}]
  \cup [f : {"dtotal", "dkill"}, v : {0 - 1, NDWARVES, NDWARVES + 1}]
  \cup [f : {"dwarfloc", "dwarfoldloc", "place", "fixed"}, v : {0 - 2, 0 - 1, NLOCATIONS + 1}]
  \cup [f : {"prop"}, v : {0 - MAX_STATE - 2, 0 - MAX_STATE - 1, MAX_STATE, MAX_STATE + 1}]
  \cup [f : {"treasureprop"}, v : {STATE_FOUND, PROP_STASHIFY(STATE_FOUND)}]
  \cup [f : {"atloc", "link"}, v : {0 - 1, 2 * NOBJECTS, 2 * NOBJECTS + 1}]

Edited(g, e) ==
  CASE e.f = "lcgX" -> [g EXCEPT !.lcgX = e.v]
    [] e.f = "abbnum" -> [g EXCEPT !.abbnum = e.v]
    [] e.f = "tally" -> [g EXCEPT !.tally = e.v]
    [] e.f = "numdie" -> [g EXCEPT !.numdie = e.v]
    [] e.f = "turns" -> [g EXCEPT !.turns = e.v]
    [] e.f = "saved" -> [g EXCEPT !.saved = e.v]
    [] e.f = "limit" -> [g EXCEPT !.limit = e.v]
    [] e.f = "loc" -> [g EXCEPT !.loc = e.v]
    [] e.f = "newloc" -> [g EXCEPT !.newloc = e.v]
    [] e.f = "oldloc" -> [g EXCEPT !.oldloc = e.v]
    [] e.f = "oldlc2" -> [g EXCEPT !.oldlc2 = e.v]
    [] e.f = "chloc" -> [g EXCEPT !.chloc = e.v]
    [] e.f = "chloc2" -> [g EXCEPT !.chloc2 = e.v]
    [] e.f = "dtotal" -> [g EXCEPT !.dtotal = e.v]
    [] e.f = "dkill" -> [g EXCEPT !.dkill = e.v]
    [] e.f = "dwarfloc" -> [g EXCEPT !.dwarves[1].loc = e.v]
    [] e.f = "dwarfoldloc" -> [g EXCEPT !.dwarves[NDWARVES].oldloc = e.v]
    [] e.f = "place" -> [g EXCEPT !.objects[LAMP].place = e.v]
    [] e.f = "fixed" -> [g EXCEPT !.objects[GRATE].fixed = e.v]
    [] e.f = "prop" -> [g EXCEPT !.objects[BOTTLE].prop = e.v]
    [] e.f = "treasureprop" -> [g EXCEPT !.objects[RUBY].prop = e.v]
    [] e.f = "atloc" -> [g EXCEPT !.locs[LOC_START].atloc = e.v]
    [] e.f = "link" -> [g EXCEPT !.link[LAMP] = e.v]
    [] OTHER -> g

Magics == {ADVENT_MAGIC, "open-adventure"}
Canaries == {ENDIAN_MAGIC, 3337}
Versions == {SAVE_VERSION, SAVE_VERSION - 1, SAVE_VERSION + 1, 0 - 1337}

SaveFiles ==
  {[savefile(Edited(initialise(createGameState, 4711), e), v)
      EXCEPT !.magic = m, !.canary = c] :
     e \in Edits, m \in Magics, c \in Canaries, v \in Versions}

InitRestore ==
  /\ \E seedval \in Seeds : game = initialise(createGameState, seedval)
  /\ travel = WorldTravel
  /\ tkey = WorldTkey
  /\ out = <<>>
  /\ pc = "prompt"
  /\ save \in SaveFiles
  /\ call = NoCall

\* restoreFromFile(): the file is read and handed to restore()
Restore ==
  /\ pc = "prompt"
  /\ save # NoSave
  /\ LET y == restore(Ctx(game), save)
     IN /\ game' = y.g
        /\ out' = y.out
        /\ pc' = IF Running(y) THEN "prompt" ELSE y.st
        /\ call' = IF Running(y) THEN [op |-> "restore", ret |-> GO_TOP]
                   ELSE [op |-> "restore"]
  /\ UNCHANGED <<travel, tkey, save>>

NextRestore == Restore

SpecRestore == InitRestore /\ [][NextRestore]_vars

\* ------------------------------------------------------------------------
\* Properties of restore() and isValid()
\* ------------------------------------------------------------------------
HeaderBad(sv) == sv.magic # ADVENT_MAGIC \/ sv.canary # ENDIAN_MAGIC
HeaderGood(sv) ==
  sv.magic = ADVENT_MAGIC /\ sv.canary = ENDIAN_MAGIC /\ sv.version = SAVE_VERSION
NotFoundTreasures(valgame) ==
  {o \in 1..NOBJECTS : WorldObjects[o].isTreasure /\ valgame.objects[o].prop = STATE_NOTFOUND}

\* C5: restoring a file with a wrong magic or canary prints BAD_SAVE and
\* nothing else; with those right and a wrong version it prints VERSION_SKEW
\* with the file's version / 10 and version % 10 and nothing else.  Either
\* way no field of the game changes, the process goes on and restore()
\* returns GO_TOP, whatever the rest of the file holds (the magic and the
\* canary are looked at before the version, the version before the
\* snapshot).
C5_RejectedHeader ==
  [][(pc = "prompt" /\ save # NoSave /\ (HeaderBad(save) \/ save.version # SAVE_VERSION))
       => /\ Len(out') = 1
          /\ IF HeaderBad(save)
             THEN out'[1] = Message("BAD_SAVE", <<>>)
             ELSE /\ out'[1].msg = "VERSION_SKEW"
                  /\ SubSeq(out'[1].args, 1, 2) =
                       <<JsTrunc(save.version, 10), JsRem(save.version, 10)>>
          /\ game' = game
          /\ pc' = "prompt"
          /\ call' = [op |-> "restore", ret |-> GO_TOP]]_vars

\* a file of version -1337 (as the regression suite writes) with a good
\* magic and canary and a snapshot isValid() would refuse has been restored
C5_Witness ==
  /\ call = [op |-> "restore", ret |-> GO_TOP]
  /\ ~HeaderBad(save) /\ save.version = 0 - 1337 /\ ~isValid(save.game)
  /\ out = <<Message("VERSION_SKEW", <<0 - 133, 0 - 7, 3, 1>>)>>
  /\ pc = "prompt"

\* C6: restoring a file whose magic, canary and version are right and whose
\* snapshot fails isValid() prints SAVE_TAMPERING and ends the process; no
\* field of the game is overwritten.
C6_Tampering ==
  [][(pc = "prompt" /\ save # NoSave /\ HeaderGood(save) /\ ~isValid(save.game))
       => /\ out' = <<Message("SAVE_TAMPERING", <<>>)>>
          /\ pc' = "exit"
          /\ game' = game]_vars

C6_Witness ==
  /\ call.op = "restore" /\ pc = "exit"
  /\ HeaderGood(save) /\ save.game.numdie = 2000
  /\ out = <<Message("SAVE_TAMPERING", <<>>)>>
  /\ game # save.game

\* C7 as stated: isValid() refuses every snapshot whose lcgX is below 0 or
\* at least LCG_M.
C7_RejectsLcgOutOfRange ==
  save # NoSave =>
    ((save.game.lcgX < 0 \/ save.game.lcgX >= LCG_M) => ~isValid(save.game))

\* C8: isValid() refuses every snapshot whose stored tally differs from the
\* number of treasures whose prop is STATE_NOTFOUND.
C8_RejectsTallyMismatch ==
  save # NoSave =>
    (save.game.tally # Cardinality(NotFoundTreasures(save.game)) => ~isValid(save.game))

\* a file whose only defect is its tally has been refused
C8_Witness ==
  /\ call.op = "restore" /\ pc = "exit" /\ HeaderGood(save)
  /\ save.game.tally # Cardinality(NotFoundTreasures(save.game))
  /\ isValid([save.game EXCEPT !.tally = Cardinality(NotFoundTreasures(save.game))])
  /\ out = <<Message("SAVE_TAMPERING", <<>>)>>

\* ------------------------------------------------------------------------
\* movement.ts
\* ------------------------------------------------------------------------
traveleq(a, b) ==
  /\ travel[a].condtype = travel[b].condtype
  /\ travel[a].condarg1 = travel[b].condarg1
  /\ travel[a].condarg2 = travel[b].condarg2
  /\ travel[a].desttype = travel[b].desttype
  /\ travel[a].destval = travel[b].destval

\* The search for the rule that answers the verb: the first rule from te on
\* whose motion is HERE or the verb.  0 when the last rule is passed without
\* one.
RECURSIVE findEntry(_, _)
findEntry(te, motion) ==
  IF travel[te].motion = "HERE" \/ travel[te].motion = motion THEN te
  ELSE IF travel[te].stop THEN 0
  ELSE findEntry(te + 1, motion)

cantGo_default(motion) == "CANT_APPLY"

\* the message for a verb no rule answers
cantGo(motion) ==
  CASE motion \in {"EAST", "WEST", "SOUTH", "NORTH", "NE", "NW", "SW", "SE", "UP", "DOWN"}
         -> "BAD_DIRECTION"
    [] motion \in {"FORWARD", "LEFT", "RIGHT"} -> "UNSURE_FACING"
    [] motion \in {"OUTSIDE", "INSIDE"} -> "NO_INOUT_HERE"
    [] motion \in {"XYZZY", "PLUGH"} -> "NOTHING_HAPPENS"
    [] motion = "CRAWL" -> "WHICH_WAY"
    [] OTHER -> "CANT_APPLY"

\* The skip after a failed condition: from teTmp on, past every rule that is
\* traveleq to rule te.  0 when a rule with the stop flag is met on the way
\* (the code calls bug() there).
skipEqual_one(te, teTmp) == IF travel[teTmp].stop THEN 0 ELSE teTmp + 1

RECURSIVE skipEqual(_, _)
skipEqual(te, teTmp) ==
  IF travel[teTmp].stop THEN 0
  ELSE IF traveleq(te, teTmp + 1) THEN skipEqual(te, teTmp + 1)
  ELSE teTmp + 1

\* a [pct N] condition, and an unconditional rule written as 100, draw a
\* random number
drawsNumber(te) ==
  travel[te].condtype \in {cond_goto, cond_pct} /\ travel[te].condarg1 # 0

conditionMet(g, te) ==
  LET t == travel[te]
  IN IF t.condtype < cond_not
     THEN IF t.condtype = cond_goto \/ t.condtype = cond_pct
          THEN t.condarg1 = 0 \/ PCT(g, t.condarg1)
          ELSE TOTING(g, t.condarg1) \/ (t.condtype = cond_with /\ AT(g, t.condarg1))
     ELSE g.objects[t.condarg1].prop # t.condarg2

\* The L12 loop: test rule te; on failure go on after the rules equal to it;
\* on success execute it.  Special travel 3 (the troll bridge) needs the
\* troll, the bear and the chasm, which the reduced object table leaves out;
\* no table of the model holds such a rule.
RECURSIVE L12(_, _)
\* the loop with a passage that lets any one thing through
L12_anyOne(y, te) ==
  IF ~Running(y) THEN y
  ELSE
    LET t   == travel[te]
        met == conditionMet(y.g, te)
        y1  == SetG(y, IF drawsNumber(te) THEN getNextLcgValue(y.g) ELSE y.g)
        nx  == skipEqual(te, te)
        y2  == SetG(y1, [y1.g EXCEPT !.newloc = t.destval])
    IN IF ~met
       THEN IF nx = 0 THEN bug(y1, "CONDITIONAL_TRAVEL_ENTRY_WITH_NO_ALTERATION")
            ELSE L12(y1, nx)
       ELSE IF t.desttype = dest_goto THEN y2
       ELSE IF t.desttype = dest_speak
       THEN LET y3 == speak(y2, "arbitraryMessages", <<t.destval>>)
            IN SetG(y3, [y3.g EXCEPT !.newloc = y3.g.loc])
       ELSE IF t.destval = 1
       THEN LET to == IF y2.g.loc = LOC_PLOVER THEN LOC_ALCOVE ELSE LOC_PLOVER
            IN IF y2.g.holdng > 1
               THEN rspeak(SetG(y2, [y2.g EXCEPT !.newloc = y2.g.loc]), "MUST_DROP")
               ELSE SetG(y2, [y2.g EXCEPT !.newloc = to])
       ELSE IF t.destval = 2
       THEN LET y3 == drop(y2, EMERALD, y2.g.loc)
            IN IF nx = 0 THEN bug(y3, "CONDITIONAL_TRAVEL_ENTRY_WITH_NO_ALTERATION")
               ELSE L12(y3, nx)
       ELSE bug(y2, "SPECIAL_TRAVEL_500_GT_L_GT_300_EXCEEDS_GOTO_LIST")

L12(y, te) ==
  IF ~Running(y) THEN y
  ELSE
    LET t   == travel[te]
        met == conditionMet(y.g, te)
        y1  == SetG(y, IF drawsNumber(te) THEN getNextLcgValue(y.g) ELSE y.g)
        nx  == skipEqual(te, te)
        y2  == SetG(y1, [y1.g EXCEPT !.newloc = t.destval])
    IN IF ~met
       THEN IF nx = 0 THEN bug(y1, "CONDITIONAL_TRAVEL_ENTRY_WITH_NO_ALTERATION")
            ELSE L12(y1, nx)
       ELSE IF t.desttype = dest_goto THEN y2
       ELSE IF t.desttype = dest_speak
       THEN LET y3 == speak(y2, "arbitraryMessages", <<t.destval>>)
            IN SetG(y3, [y3.g EXCEPT !.newloc = y3.g.loc])
       ELSE IF t.destval = 1
       THEN LET to == IF y2.g.loc = LOC_PLOVER THEN LOC_ALCOVE ELSE LOC_PLOVER
            IN IF y2.g.holdng > 1 \/ (y2.g.holdng = 1 /\ ~TOTING(y2.g, EMERALD))
               THEN rspeak(SetG(y2, [y2.g EXCEPT !.newloc = y2.g.loc]), "MUST_DROP")
               ELSE SetG(y2, [y2.g EXCEPT !.newloc = to])
       ELSE IF t.destval = 2
       THEN LET y3 == drop(y2, EMERALD, y2.g.loc)
            IN IF nx = 0 THEN bug(y3, "CONDITIONAL_TRAVEL_ENTRY_WITH_NO_ALTERATION")
               ELSE L12(y3, nx)
       ELSE bug(y2, "SPECIAL_TRAVEL_500_GT_L_GT_300_EXCEEDS_GOTO_LIST")

ordinaryTravel(y, te0, motion) ==
  LET te == findEntry(te0, motion)
  IN IF te = 0 THEN rspeak(y, cantGo(motion)) ELSE L12(y, te)

\* "go back" that looks for no way through a forced location
RECURSIVE backEntry_direct(_, _, _)
backEntry_direct(te, target, teTmp) ==
  LET t == travel[te]
  IN IF t.desttype = dest_goto /\ t.destval = target THEN te
     ELSE IF ~t.stop THEN backEntry_direct(te + 1, target, teTmp)
     ELSE teTmp

\* "go back": the rule of here that leads to the target, else a rule that
\* leads to a forced location that leads to the target, else 0
RECURSIVE backEntry(_, _, _)
backEntry(te, target, teTmp) ==
  LET t == travel[te]
      tmp2 == IF /\ t.desttype = dest_goto
                 /\ FORCED(t.destval)
                 /\ travel[tkey[t.destval]].destval = target
              THEN te ELSE teTmp
  IN IF t.desttype = dest_goto /\ t.destval = target THEN te
     ELSE IF ~t.stop THEN backEntry(te + 1, target, tmp2)
     ELSE tmp2

playermove(y, motion) ==
  IF ~Running(y) THEN y
  ELSE
    LET g   == y.g
        te0 == tkey[g.loc]
        y1  == SetG(y, [g EXCEPT !.newloc = g.loc])
        target == IF FORCED(g.oldloc) THEN g.oldlc2 ELSE g.oldloc
        yb  == SetG(y1, [y1.g EXCEPT !.oldlc2 = g.oldloc, !.oldloc = g.loc])
        te  == backEntry(te0, target, 0)
    IN IF te0 = 0 THEN bug(y1, "LOCATION_HAS_NO_TRAVEL_ENTRIES")
       ELSE IF motion = "NUL" THEN y1
       ELSE IF motion = "BACK"
       THEN IF CNDBIT(g.loc, COND_NOBACK) THEN rspeak(yb, "TWIST_TURN")
            ELSE IF target = g.loc THEN rspeak(yb, "FORGOT_PATH")
            ELSE IF te = 0 THEN rspeak(yb, "NOT_CONNECTED")
            ELSE ordinaryTravel(yb, te0, travel[te].motion)
       ELSE IF motion = "LOOK"
       THEN LET y2 == IF g.detail < 3 THEN rspeak(y1, "NO_MORE_DETAIL") ELSE y1
            IN SetG(y2, [y2.g EXCEPT !.detail = @ + 1, !.wzdark = FALSE,
                                     !.locs[g.loc].abbrev = 0])
       ELSE IF motion = "CAVE"
       THEN rspeak(y1, IF OUTSIDE(g.loc) THEN "FOLLOW_STREAM" ELSE "NEED_DETAIL")
       ELSE ordinaryTravel(yb, te0, motion)

\* ------------------------------------------------------------------------
\* Specification SpecTravel: playermove() over a family of travel tables
\* ------------------------------------------------------------------------
\* The rules a location of the family is made of.  Rules 2 and 3 are equal
\* for traveleq; 7 is the plover transport, 8 the plover-alcove passage.
TravelRules ==
  { Rule("NORTH", cond_goto, 0, 0, dest_goto, LOC_DEBRIS, FALSE),
    Rule("NORTH", cond_carry, LAMP, 0, dest_goto, LOC_ALCOVE, FALSE),
    Rule("WEST", cond_carry, LAMP, 0, dest_goto, LOC_ALCOVE, FALSE),
    Rule("NORTH", cond_pct, 50, 0, dest_speak, 7, FALSE),
    Rule("HERE", cond_goto, 0, 0, dest_goto, LOC_DEBRIS, FALSE),
    Rule("WEST", cond_not, LAMP, LAMP_DARK, dest_goto, LOC_DEBRIS, FALSE),
    Rule("NORTH", cond_carry, EMERALD, 0, dest_special, 2, FALSE),
    Rule("WEST", cond_with, LAMP, 0, dest_special, 1, FALSE) }

\* the largest number of rules of the location under test
MaxRules == 3

RuleLists == UNION {[1..n -> TravelRules] : n \in 1..MaxRules}

\* The rules rs for LOC_PLOVER, the last with the stop flag, then the one
\* rule of LOC_ALCOVE, a forced move to the debris room.
TableOf(rs) ==
  [i \in 0..(Len(rs) + 1) |->
     IF i = 0 THEN DummyRule
     ELSE IF i <= Len(rs) THEN [rs[i] EXCEPT !.stop = (i = Len(rs))]
     ELSE Rule("HERE", cond_goto, 0, 0, dest_goto, LOC_DEBRIS, TRUE)]

TkeyOf(rs) ==
  [l \in 0..NLOCATIONS |->
     CASE l = LOC_PLOVER -> 1
       [] l = LOC_ALCOVE -> Len(rs) + 1
       [] OTHER -> 0]

\* The player stands in the plover room, having come from the debris room
\* by way of the alcove.  The lamp is in the building, lying here, or
\* carried dark or lit; the emerald lies here or is carried.
TravelStates ==
  { LET g0 == [initialise(createGameState, seedval) EXCEPT
                 !.loc = LOC_PLOVER, !.newloc = LOC_PLOVER,
                 !.oldloc = LOC_ALCOVE, !.oldlc2 = LOC_DEBRIS]
        y1 == CASE lamp = "here" -> move(Ctx(g0), LAMP, LOC_PLOVER)
                [] lamp \in {"dark", "lit"} -> carry(Ctx(g0), LAMP, LOC_BUILDING)
                [] OTHER -> Ctx(g0)
        y2 == IF lamp = "lit"
              THEN SetG(y1, [y1.g EXCEPT !.objects[LAMP].prop = LAMP_BRIGHT]) ELSE y1
        y3 == IF emerald THEN carry(y2, EMERALD, LOC_PLOVER) ELSE y2
    IN y3.g :
    seedval \in {0, 20011}, lamp \in {"away", "here", "dark", "lit"}, emerald \in BOOLEAN }

Motions ==
  {"NORTH", "WEST", "FORWARD", "OUTSIDE", "XYZZY", "CRAWL", "JUMP", "HERE",
   "BACK", "LOOK", "CAVE", "NUL"}

InitTravel ==
  /\ game \in TravelStates
  /\ \E rs \in RuleLists : travel = TableOf(rs) /\ tkey = TkeyOf(rs)
  /\ out = <<>>
  /\ pc = "prompt"
  /\ save = NoSave
  /\ call = NoCall

PlayerMove(motion) ==
  /\ pc = "prompt"
  /\ call = NoCall
  /\ LET y == playermove(Ctx(game), motion)
     IN /\ game' = y.g
        /\ out' = y.out
        /\ pc' = IF Running(y) THEN "prompt" ELSE y.st
  /\ call' = [op |-> "playermove", motion |-> motion]
  /\ UNCHANGED <<travel, tkey, save>>

NextTravel == \E motion \in Motions : PlayerMove(motion)

SpecTravel == InitTravel /\ [][NextTravel]_vars

\* ------------------------------------------------------------------------
\* Properties of playermove()
\* ------------------------------------------------------------------------
\* the number of entries of the travel table, the dummy entry included
NTRAVEL == Cardinality(DOMAIN travel)
\* the last rule of location l: the first from tkey[l] on with the stop flag
LastRule(l) ==
  CHOOSE j \in tkey[l]..(NTRAVEL - 1) :
    travel[j].stop /\ \A k \in tkey[l]..(j - 1) : ~travel[k].stop
OrdinaryMotion(motion) == motion \notin {"BACK", "LOOK", "CAVE", "NUL"}
MatchesNoRule(motion) ==
  \A j \in tkey[game.loc]..LastRule(game.loc) : travel[j].motion # motion
CantGoMessage(motion) ==
  IF motion \in {"EAST", "WEST", "SOUTH", "NORTH", "NE", "NW", "SW", "SE", "UP", "DOWN"}
  THEN "BAD_DIRECTION"
  ELSE IF motion \in {"FORWARD", "LEFT", "RIGHT"} THEN "UNSURE_FACING"
  ELSE IF motion \in {"INSIDE", "OUTSIDE"} THEN "NO_INOUT_HERE"
  ELSE IF motion \in {"XYZZY", "PLUGH"} THEN "NOTHING_HAPPENS"
  ELSE IF motion = "CRAWL" THEN "WHICH_WAY"
  ELSE "CANT_APPLY"
\* the player stays, nothing moves, the one message for the verb is printed
CantGoOutcome(motion) ==
  /\ game'.newloc = game.loc
  /\ game'.loc = game.loc
  /\ game'.objects = game.objects
  /\ game'.locs = game.locs
  /\ game'.link = game.link
  /\ game'.holdng = game.holdng
  /\ out' = <<Message(CantGoMessage(motion), <<>>)>>
  /\ pc' = "prompt"

\* C9 as stated: an ordinary motion that matches no rule of the current
\* location, where no rule before the last rule of that location is a HERE
\* rule, leaves newloc at loc, moves nothing and prints the one message of
\* the motion's class.
C9_AsStated ==
  [][(/\ pc = "prompt" /\ call = NoCall /\ call'.op = "playermove"
      /\ OrdinaryMotion(call'.motion)
      /\ MatchesNoRule(call'.motion)
      /\ \A j \in tkey[game.loc]..(LastRule(game.loc) - 1) : travel[j].motion # "HERE")
       => CantGoOutcome(call'.motion)]_vars

\* C9, amended: the same, where no rule of the location at all is a HERE
\* rule, the last rule included.
C9_CantGo ==
  [][(/\ pc = "prompt" /\ call = NoCall /\ call'.op = "playermove"
      /\ OrdinaryMotion(call'.motion)
      /\ MatchesNoRule(call'.motion)
      /\ \A j \in tkey[game.loc]..LastRule(game.loc) : travel[j].motion # "HERE")
       => CantGoOutcome(call'.motion)]_vars

\* "forward" was said where three rules answer other verbs, none is HERE
C9_Witness ==
  /\ call = [op |-> "playermove", motion |-> "FORWARD"]
  /\ LastRule(game.loc) = tkey[game.loc] + 2
  /\ \A j \in tkey[game.loc]..LastRule(game.loc) : travel[j].motion \in {"NORTH", "WEST"}
  /\ out = <<Message("UNSURE_FACING", <<>>)>>
  /\ game.newloc = game.loc
  /\ pc = "prompt"

\* The rule that answers the verb: the first whose motion is HERE or the
\* verb (0 when there is none).
EntryRule(motion) ==
  LET found == {j \in tkey[game.loc]..LastRule(game.loc) :
                  travel[j].motion = "HERE" \/ travel[j].motion = motion}
  IN IF found = {} THEN 0 ELSE CHOOSE j \in found : \A k \in found : j <= k
Signature(j) ==
  <<travel[j].condtype, travel[j].condarg1, travel[j].condarg2,
    travel[j].desttype, travel[j].destval>>
\* rule te and every immediately following rule with the same signature
SkippedWith(te) ==
  {j \in te..(NTRAVEL - 1) : \A k \in te..j : Signature(k) = Signature(te)}
\* Testing in table order from rule te on, in game state g: the first rule
\* whose condition holds, with the game state the tests leave; or a fault
\* when a failing or skipped rule is the last rule.
RECURSIVE FirstHolding(_, _)
FirstHolding(g, te) ==
  LET g1 == IF drawsNumber(te) THEN getNextLcgValue(g) ELSE g
  IN IF conditionMet(g, te) THEN [fault |-> FALSE, te |-> te, g |-> g1]
     ELSE IF \E j \in SkippedWith(te) : travel[j].stop THEN [fault |-> TRUE]
     ELSE FirstHolding(g1, 1 + CHOOSE j \in SkippedWith(te) : \A k \in SkippedWith(te) : k <= j)

\* C10: once the rule that answers the verb is found, rules are tested in
\* table order; after a failed test every immediately following rule with
\* the same condition and destination is skipped; the first rule whose
\* condition holds decides the outcome (a goto sets newloc, a speak prints
\* its message and stays, the plover-alcove passage goes across or stays,
\* the plover transport drops the emerald here); when a failing or skipped
\* rule is the last rule the fault CONDITIONAL_TRAVEL_ENTRY_WITH_NO_ALTERATION
\* ends the session and the player is not moved.
C10_RuleOrder ==
  [][(/\ pc = "prompt" /\ call = NoCall /\ call'.op = "playermove"
      /\ OrdinaryMotion(call'.motion)
      /\ EntryRule(call'.motion) # 0)
       => LET r == FirstHolding([game EXCEPT !.newloc = game.loc,
                                             !.oldlc2 = game.oldloc,
                                             !.oldloc = game.loc],
                                EntryRule(call'.motion))
          IN IF r.fault
             THEN /\ pc' = "fault"
                  /\ out' = <<Message("CONDITIONAL_TRAVEL_ENTRY_WITH_NO_ALTERATION", <<>>)>>
                  /\ game'.loc = game.loc
                  /\ game'.newloc = game.loc
             ELSE LET t == travel[r.te]
                  IN CASE t.desttype = dest_goto ->
                            /\ game' = [r.g EXCEPT !.newloc = t.destval]
                            /\ out' = <<>> /\ pc' = "prompt"
                       [] t.desttype = dest_speak ->
                            /\ game' = r.g
                            /\ out' = <<Message("arbitraryMessages", <<t.destval>>)>>
                            /\ pc' = "prompt"
                       [] t.desttype = dest_special /\ t.destval = 1 ->
                            /\ game'.newloc \in {game.loc, LOC_ALCOVE}
                            /\ [game' EXCEPT !.newloc = game.loc] = r.g
                            /\ pc' = "prompt"
                       [] OTHER ->
                            /\ game'.objects[EMERALD].place = game.loc
                            /\ game'.locs[game.loc].atloc = EMERALD]_vars

\* "north" was said with the lamp not carried where the rules are: north
\* with the lamp, west with the lamp (skipped), north to the debris room
C10_Witness ==
  /\ call = [op |-> "playermove", motion |-> "NORTH"]
  /\ LastRule(game.loc) = tkey[game.loc] + 2
  /\ travel[tkey[game.loc]].condtype = cond_carry
  /\ travel[tkey[game.loc]].condarg1 = LAMP
  /\ Signature(tkey[game.loc] + 1) = Signature(tkey[game.loc])
  /\ travel[tkey[game.loc] + 2].condtype = cond_goto
  /\ ~TOTING(game, LAMP)
  /\ game.newloc = LOC_DEBRIS
  /\ pc = "prompt"

\* ------------------------------------------------------------------------
\* The game loop: helpers
\* ------------------------------------------------------------------------
\* the turn thresholds of the reduced tables
NTHRESHOLDS == 2
turnThresholds ==
  <<[threshold |-> 350, pointLoss |-> 2, message |-> "turn_thresholds.1"],
    [threshold |-> 500, pointLoss |-> 3, message |-> "turn_thresholds.2"]>>
GRATE_CLOSED == 0
GRATE_OPEN == 1

isDarkHere(g) ==
  ~CNDBIT(g.loc, COND_LIT) /\ (g.objects[LAMP].prop = LAMP_DARK \/ ~HERE(g, LAMP))

LIQUID(g) ==
  IF g.objects[BOTTLE].prop = WATER_BOTTLE THEN WATER
  ELSE IF g.objects[BOTTLE].prop = OIL_BOTTLE THEN OIL
  ELSE NO_OBJECT

LIQLOC(l) ==
  IF CNDBIT(l, COND_FLUID) THEN (IF CNDBIT(l, COND_OILY) THEN OIL ELSE WATER)
  ELSE NO_OBJECT

\* pspeak(): the text of object obj for state skip, in the given mode
pspeak(y, obj, mode, skip) == speak(y, mode, <<obj, skip>>)

stateChange(y, obj, state) ==
  IF ~Running(y) THEN y
  ELSE pspeak(SetG(y, [y.g EXCEPT !.objects[obj].prop = state]), obj, "change", state)

\* a read of game.objects[obj] with obj beyond the table: the TypeError is
\* caught by nothing but main(), which reports it and leaves with code 1
TypeError(y) == IF Running(y) THEN [y EXCEPT !.st = "fault"] ELSE y

\* ------------------------------------------------------------------------
\* score.ts
\* ------------------------------------------------------------------------
endgame == 0
quitgame == 1
scoregame == 2

\* the classes of the reduced tables: a threshold and the message of the
\* class; as in the generated table the last threshold is beyond any score
NCLASSES == 3
classes ==
  <<[threshold |-> 30, message |-> "classes.1"],
    [threshold |-> 45, message |-> "classes.2"],
    [threshold |-> 9999, message |-> "classes.3"]>>

\* k of score(): what treasure i is worth
treasureWorth(i) == IF i = CHEST THEN 14 ELSE IF i > CHEST THEN 16 ELSE 12

\* the first loop of score() from object i on, for points.  Every treasure
\* of the reduced tables has an inventory text.
RECURSIVE treasurePoints(_, _)
treasurePoints(g, i) ==
  IF i > NOBJECTS THEN 0
  ELSE treasurePoints(g, i + 1)
       + (IF WorldObjects[i].isTreasure /\ ~OBJECT_IS_STASHED(g, i) /\ ~OBJECT_IS_NOTFOUND(g, i)
          THEN 2 ELSE 0)
       + (IF WorldObjects[i].isTreasure /\ g.objects[i].place = LOC_BUILDING /\ OBJECT_IS_FOUND(g, i)
          THEN treasureWorth(i) - 2 ELSE 0)

\* the first loop of score() from object i on, for mxscor
RECURSIVE treasureMax(_)
treasureMax(i) ==
  IF i > NOBJECTS THEN 0
  ELSE treasureMax(i + 1) + (IF WorldObjects[i].isTreasure THEN treasureWorth(i) ELSE 0)

\* mxscor as score() leaves it
mxscor == treasureMax(1) + NDEATHS * 10 + 4 + 25 + 25 + 45 + 1 + 2

bonusPoints(g) ==
  IF ~g.closed THEN 0
  ELSE CASE g.bonus = "none" -> 10
         [] g.bonus = "splatter" -> 25
         [] g.bonus = "defeat" -> 30
         [] g.bonus = "victory" -> 45
         [] OTHER -> 0

\* the points score() returns.  The reduced tables have no magazine to leave
\* at Witt's End and no hints to pay for.
points(g, mode) ==
  treasurePoints(g, 1)
  + (NDEATHS - g.numdie) * 10
  + (IF mode = endgame THEN 4 ELSE 0)
  + (IF g.dflag # 0 THEN 25 ELSE 0)
  + (IF g.closng THEN 25 ELSE 0)
  + bonusPoints(g)
  + 2
  - (IF g.novice THEN 5 ELSE 0)
  - (IF g.clshnt THEN 10 ELSE 0)
  - g.trnluz - g.saved

\* score(): what it prints, which is the answer to the score command only
score(y, mode) ==
  IF Running(y) /\ mode = scoregame
  THEN speak(y, "GARNERED_POINTS", <<points(y.g, mode), mxscor, y.g.turns, y.g.turns>>)
  ELSE y

\* the first class from i on whose threshold the points do not pass, 0 when
\* there is none
RECURSIVE classOf(_, _)
classOf(p, i) ==
  IF i > NCLASSES THEN 0
  ELSE IF classes[i].threshold >= p THEN i
  ELSE classOf(p, i + 1)

\* the class loop of terminate()
rank(y, p, i) ==
  IF i = 0 THEN rspeak(y, "OFF_SCALE")
  ELSE IF i < NCLASSES
  THEN speak(speak(y, classes[i].message, <<>>), "NEXT_HIGHER",
             <<classes[i].threshold + 1 - p, classes[i].threshold + 1 - p>>)
  ELSE rspeak(speak(y, classes[i].message, <<>>), "NO_HIGHER")

tookLong(y, p) ==
  IF p + y.g.trnluz + 1 >= mxscor /\ y.g.trnluz # 0 THEN rspeak(y, "TOOK_LONG") ELSE y

withoutSuspends(y, p) ==
  IF p + y.g.saved + 1 >= mxscor /\ y.g.saved # 0 THEN rspeak(y, "WITHOUT_SUSPENDS") ELSE y

\* terminate() with the points p that score() returned: the report, then
\* TerminateError(0), which main() turns into process.exit(0)
terminateWith(y, p) ==
  exit(rank(speak(withoutSuspends(tookLong(y, p), p), "TOTAL_SCORE",
                  <<p, mxscor, y.g.turns, y.g.turns>>),
            p, classOf(p, 1)))

\* the session ends without a report
terminate_silent(y, mode) == exit(y)

terminate(y, mode) ==
  IF ~Running(y) THEN y ELSE terminateWith(score(y, mode), points(y.g, mode))

\* yesOrNo() of input.ts: the question, the answer read from the input, the
\* response; when getInput() answers null for the end of the input, it is
\* process.exit(0)
yesOrNo(y, question, yesResponse, noResponse, yes) ==
  IF ~Running(y) THEN y
  ELSE IF y.eof THEN exit(rspeak(y, question))
  ELSE rspeak(rspeak(y, question), IF yes THEN yesResponse ELSE noResponse)

describeLocation(y) ==
  IF ~Running(y) THEN y
  ELSE IF ~FORCED(y.g.loc) /\ isDarkHere(y.g) THEN rspeak(y, "PITCH_DARK")
  ELSE IF y.g.abbnum # 0 /\ JsRem(y.g.locs[y.g.loc].abbrev, y.g.abbnum) = 0
  THEN speak(y, "description.big", <<y.g.loc>>)
  ELSE speak(y, "description.small", <<y.g.loc>>)

\* listobjects() on one object of the chain: seen for the first time it is
\* set found and the tally goes down; its text is printed
firstSeen(g, obj) ==
  [OBJECT_SET_FOUND(g, obj) EXCEPT
     !.objects[CHAIN].prop = IF obj = CHAIN THEN CHAINING_BEAR ELSE @,
     !.seenbigwords = @ \/ obj = EGGS,
     !.tally = @ - 1]

listOne(y, obj) ==
  IF OBJECT_IS_STASHED(y.g, obj) \/ OBJECT_IS_NOTFOUND(y.g, obj)
  THEN IF y.g.closed THEN y
       ELSE pspeak(SetG(y, firstSeen(y.g, obj)), obj, "look", firstSeen(y.g, obj).objects[obj].prop)
  ELSE pspeak(y, obj, "look", y.g.objects[obj].prop)

\* the walk of listobjects() along the chain of the location
RECURSIVE listFrom(_, _, _)
listFrom(y, i, fuel) ==
  IF i = 0 \/ ~Running(y) THEN y
  ELSE IF fuel = 0 THEN [y EXCEPT !.st = "hung"]
  ELSE listFrom(listOne(y, IF i > NOBJECTS THEN i - NOBJECTS ELSE i),
                y.g.link[i], fuel - 1)

listobjects(y) ==
  IF ~Running(y) \/ isDarkHere(y.g) THEN y
  ELSE listFrom(SetG(y, [y.g EXCEPT !.locs[y.g.loc].abbrev = @ + 1]),
                y.g.locs[y.g.loc].atloc, ScanFuel)

\* The hints of the yaml, the first five of them: hint number h is
\* hints[h + 1].  The turns are small stand-ins for the counts of the yaml.
hints ==
  <<[turns |-> 2, penalty |-> 2, question |-> "CAVE_QUESTION",  hint |-> "CAVE_HINT"],
    [turns |-> 2, penalty |-> 2, question |-> "BIRD_QUESTION",  hint |-> "BIRD_HINT"],
    [turns |-> 2, penalty |-> 2, question |-> "SNAKE_QUESTION", hint |-> "SNAKE_HINT"],
    [turns |-> 3, penalty |-> 4, question |-> "MAZE_QUESTION",  hint |-> "MAZE_HINT"],
    [turns |-> 2, penalty |-> 5, question |-> "DARK_QUESTION",  hint |-> "DARK_HINT"]>>

\* conditions[loc] as the number the bits make
RECURSIVE bitsValue(_)
bitsValue(bits) ==
  IF bits = {} THEN 0
  ELSE LET b == CHOOSE x \in bits : TRUE IN 2 ^ b + bitsValue(bits \ {b})

\* the switch of checkhints(): what the hint at its count of turns does,
\* "break" to offer it, "reset" to zero the count and return, "return"
\* to return with the count as it is
hintCase(g, hint) ==
  CASE hint = 0 ->
         IF g.objects[GRATE].prop = GRATE_CLOSED /\ ~HERE(g, KEYS)
         THEN "break" ELSE "reset"
    [] hint = 1 ->
         IF g.objects[BIRD].place = g.loc /\ TOTING(g, ROD) /\ g.oldobj = BIRD
         THEN "break" ELSE "return"
    [] hint = 2 ->
         IF HERE(g, SNAKE) /\ ~HERE(g, BIRD) THEN "break" ELSE "reset"
    [] hint = 3 ->
         IF /\ g.locs[g.loc].atloc = NO_OBJECT
            /\ g.locs[g.oldloc].atloc = NO_OBJECT
            /\ g.locs[g.oldlc2].atloc = NO_OBJECT
            /\ g.holdng > 1
         THEN "break" ELSE "reset"
    [] hint = 4 ->
         IF ~OBJECT_IS_NOTFOUND(g, EMERALD) /\ OBJECT_IS_NOTFOUND(g, PYRAMID)
         THEN "break" ELSE "reset"
    [] OTHER -> "bug"

setLc(y, hint, n) == SetG(y, [y.g EXCEPT !.hints[hint + 1].lc = n])

\* the display that marks the hint used whatever the second answer
offerHint_free(y, hint, yes1, yes2) ==
  LET q == yesOrNo(setLc(y, hint, 0), hints[hint + 1].question, "NO_MESSAGE", "OK_MAN", yes1)
      u == yesOrNo(speak(q, "HINT_COST", <<hints[hint + 1].penalty, hints[hint + 1].penalty>>),
                   "WANT_HINT", hints[hint + 1].hint, "OK_MAN", yes2)
  IN IF ~Running(q) \/ ~yes1 THEN [y |-> q, on |-> FALSE]
     ELSE [y |-> SetG(u, [u.g EXCEPT !.hints[hint + 1].used = TRUE]), on |-> Running(u)]

\* the display of the hint: the question, the cost, the hint itself.  The
\* result tells whether the loop over the hints goes on
offerHint(y, hint, yes1, yes2) ==
  LET q == yesOrNo(setLc(y, hint, 0), hints[hint + 1].question, "NO_MESSAGE", "OK_MAN", yes1)
      u == yesOrNo(speak(q, "HINT_COST", <<hints[hint + 1].penalty, hints[hint + 1].penalty>>),
                   "WANT_HINT", hints[hint + 1].hint, "OK_MAN", yes2)
  IN IF ~Running(q) \/ ~yes1 THEN [y |-> q, on |-> FALSE]
     ELSE [y |-> SetG(u, [u.g EXCEPT !.hints[hint + 1].used = yes2,
                                     !.limit = IF yes2 /\ @ > WARNTIME
                                               THEN @ + WARNTIME * hints[hint + 1].penalty
                                               ELSE @]),
           on |-> Running(u)]

\* the loop of checkhints() from hint number hint on; yes1 and yes2 are
\* the answers to the two questions, should they be asked
RECURSIVE hintsFrom(_, _, _, _)
hintsFrom(y, hint, yes1, yes2) ==
  IF ~Running(y) \/ hint >= Len(y.g.hints) THEN y
  ELSE IF y.g.hints[hint + 1].used THEN hintsFrom(y, hint + 1, yes1, yes2)
  ELSE LET lc == (IF ~CNDBIT(y.g.loc, hint + 1 + COND_HBASE)
                  THEN 0 - 1 ELSE y.g.hints[hint + 1].lc) + 1
           y1 == setLc(y, hint, lc)
           way == hintCase(y1.g, hint)
           o == offerHint(y1, hint, yes1, yes2)
       IN IF lc < hints[hint + 1].turns THEN hintsFrom(y1, hint + 1, yes1, yes2)
          ELSE IF way = "reset" THEN setLc(y1, hint, 0)
          ELSE IF way = "return" THEN y1
          ELSE IF way = "bug" THEN bug(y1, "HINT_NUMBER_EXCEEDS_GOTO_LIST")
          ELSE IF o.on THEN hintsFrom(o.y, hint + 1, yes1, yes2)
          ELSE o.y

\* checkhints() with the answers to its questions
checkhintsAsked(y, yes1, yes2) ==
  IF ~Running(y) THEN y
  ELSE IF bitsValue(conditions(y.g.loc)) >= y.g.conds THEN hintsFrom(y, 0, yes1, yes2)
  ELSE y

\* checkhints(): its loop runs over the hints of the game, of which the
\* reduced tables have none, so that nothing is asked
checkhints(y) == checkhintsAsked(y, FALSE, FALSE)

\* lampcheck(), in its three steps.  The battery is not in the reduced
\* object table: it is nowhere, and fresh.
lampBurns(y) ==
  IF Running(y) /\ y.g.objects[LAMP].prop = LAMP_BRIGHT
  THEN SetG(y, [y.g EXCEPT !.limit = @ - 1]) ELSE y

lampWarns(y) ==
  IF Running(y) /\ y.g.limit <= WARNTIME /\ ~y.g.lmwarn /\ HERE(y.g, LAMP)
  THEN rspeak(SetG(y, [y.g EXCEPT !.lmwarn = TRUE]), "LAMP_DIM") ELSE y

lampDies(y) ==
  IF Running(y) /\ y.g.limit = 0
  THEN IF HERE(y.g, LAMP)
       THEN rspeak(SetG(y, [y.g EXCEPT !.limit = 0 - 1, !.objects[LAMP].prop = LAMP_DARK]),
                   "LAMP_OUT")
       ELSE SetG(y, [y.g EXCEPT !.limit = 0 - 1, !.objects[LAMP].prop = LAMP_DARK])
  ELSE y

lampcheck(y) == lampDies(lampWarns(lampBurns(y)))

\* what is carried is left with the player
destroyToted_none(y, i) == y

\* the destruction of everything carried, first object to last
RECURSIVE destroyToted(_, _)
destroyToted(y, i) ==
  IF i > NOBJECTS \/ ~Running(y) THEN y
  ELSE destroyToted(IF TOTING(y.g, i) THEN destroy(y, i) ELSE y, i + 1)

\* closecheck(): the first warning
\* the dwarves are left where they are
evicted_none(dwarves) == dwarves

\* dwarves that are lost sight of and stay in the cave
evicted_unseen(dwarves) ==
  [d \in 0..NDWARVES |-> IF d >= 1 THEN [dwarves[d] EXCEPT !.seen = 0] ELSE dwarves[d]]

evicted(dwarves) ==
  [d \in 0..NDWARVES |->
     IF d >= 1 THEN [dwarves[d] EXCEPT !.seen = 0, !.loc = LOC_NOWHERE] ELSE dwarves[d]]

trollGone(y) ==
  juggle(move(move(move(move(y, TROLL, LOC_NOWHERE), TROLL + NOBJECTS, IS_FREE),
                   TROLL2, WorldObjects[TROLL].plac),
              TROLL2 + NOBJECTS, WorldObjects[TROLL].fixd),
         CHASM)

bearGone(y) ==
  IF Running(y) /\ y.g.objects[BEAR].prop # BEAR_DEAD THEN move(y, BEAR, LOC_NOWHERE) ELSE y

lockUp(y) ==
  SetG(y, [y.g EXCEPT !.objects[GRATE].prop = GRATE_CLOSED,
                      !.objects[FISSURE].prop = UNBRIDGED,
                      !.dwarves = evicted(@)])

heapChain(y) ==
  SetG(y, [y.g EXCEPT !.objects[CHAIN].prop = CHAIN_HEAP, !.objects[CHAIN].fixed = IS_FREE,
                      !.objects[AXE].prop = AXE_HERE, !.objects[AXE].fixed = IS_FREE])

\* the first clock is stopped and the flag is left as it is
setClosing_unflagged(y) == SetG(y, [y.g EXCEPT !.clock1 = 0 - 1])

setClosing(y) == SetG(y, [y.g EXCEPT !.clock1 = 0 - 1, !.closng = TRUE])

caveClosing(y) ==
  setClosing(rspeak(heapChain(bearGone(trollGone(lockUp(y)))), "CAVE_CLOSING"))

\* closecheck(): the cave closes
toStorage(y) == SetG(y, [y.g EXCEPT !.loc = LOC_NE, !.oldloc = LOC_NE, !.newloc = LOC_NE])
setClosed(y) == SetG(y, [y.g EXCEPT !.closed = TRUE])

\* what is staged in the north-east room
stageNE(y) ==
  toStorage(put(put(put(put(put(put(y, BOTTLE, LOC_NE, EMPTY_BOTTLE),
                                PLANT, LOC_NE, PLANT_THIRSTY),
                            OYSTER, LOC_NE, STATE_FOUND),
                        LAMP, LOC_NE, LAMP_DARK),
                    ROD, LOC_NE, STATE_FOUND),
                DWARF, LOC_NE, STATE_FOUND))

endgameSign(y) == SetG(y, [y.g EXCEPT !.objects[SIGN].prop = ENDGAME_SIGN])

\* what is staged in the south-west room
stageSW(y) ==
  put(put(put(put(put(endgameSign(move(move(y, GRATE, LOC_SW), SIGN, LOC_SW)),
                      SNAKE, LOC_SW, SNAKE_CHASED),
                  BIRD, LOC_SW, BIRD_CAGED),
              CAGE, LOC_SW, STATE_FOUND),
          ROD2, LOC_SW, STATE_FOUND),
      PILLOW, LOC_SW, STATE_FOUND)

fixMirror(y) == SetG(y, [y.g EXCEPT !.objects[MIRROR].fixed = LOC_SW])
mirrors(y) == fixMirror(put(y, MIRROR, LOC_NE, STATE_FOUND))

caveClosed(y) ==
  setClosed(rspeak(destroyToted(mirrors(stageSW(stageNE(y))), 1), "CAVE_CLOSED"))

\* closecheck() answers whether the cave has just closed
closecheckClock2(y) ==
  IF y.g.clock2 = 0 THEN [y |-> caveClosed(y), ret |-> TRUE]
  ELSE [y |-> lampcheck(y), ret |-> FALSE]

closecheckClock1(y) ==
  IF y.g.clock1 = 0 THEN [y |-> caveClosing(y), ret |-> y.g.closed]
  ELSE closecheckClock2(IF y.g.clock1 < 0 THEN SetG(y, [y.g EXCEPT !.clock2 = @ - 1]) ELSE y)

\* the first loop of closecheck(), from threshold i on
RECURSIVE penalties(_, _)
penalties(y, i) ==
  IF i > NTHRESHOLDS \/ ~Running(y) THEN y
  ELSE penalties(IF y.g.turns = turnThresholds[i].threshold + 1
                 THEN speak(SetG(y, [y.g EXCEPT !.trnluz = @ + turnThresholds[i].pointLoss]),
                            turnThresholds[i].message, <<>>)
                 ELSE y,
                 i + 1)

\* the first clock ticks for the player who carries nothing, deep in the cave
closecheckTick_emptyHanded(y) ==
  closecheckClock1(IF y.g.holdng = 0 /\ INDEEP(y.g.loc)
                   THEN SetG(y, [y.g EXCEPT !.clock1 = @ - 1]) ELSE y)

closecheckTick(y) ==
  closecheckClock1(IF y.g.tally = 0 /\ INDEEP(y.g.loc) /\ y.g.loc # LOC_Y2
                   THEN SetG(y, [y.g EXCEPT !.clock1 = @ - 1]) ELSE y)

closecheck(y) ==
  IF ~Running(y) THEN [y |-> y, ret |-> FALSE]
  ELSE closecheckTick(penalties(y, 1))

\* the last loop of croak(): everything carried is dropped, last object first
RECURSIVE dropToted(_, _)
dropToted(y, i) ==
  IF i < 1 \/ ~Running(y) THEN y
  ELSE dropToted(IF TOTING(y.g, i)
                 THEN drop(y, i, IF i = LAMP THEN LOC_START ELSE y.g.oldlc2)
                 ELSE y,
                 i - 1)

\* a croak() that leaves the lamp burning
reincarnate_lit(y) ==
  dropToted(SetG(y, [y.g EXCEPT !.objects[WATER].place = LOC_NOWHERE,
                                !.objects[OIL].place = LOC_NOWHERE]),
            NOBJECTS)

\* croak(): the player who goes on loses the liquids and the light, drops
\* everything and wakes in the building
reincarnate(y) ==
  dropToted(SetG(y, [y.g EXCEPT !.objects[WATER].place = LOC_NOWHERE,
                                !.objects[OIL].place = LOC_NOWHERE,
                                !.objects[LAMP].prop =
                                   IF TOTING(y.g, LAMP) THEN LAMP_DARK ELSE @]),
            NOBJECTS)

toBuilding(y) ==
  SetG(y, [y.g EXCEPT !.oldloc = LOC_BUILDING, !.loc = LOC_BUILDING,
                      !.newloc = LOC_BUILDING])

croakAnswered(y, yes) ==
  IF ~yes \/ y.g.numdie = NDEATHS THEN terminate(y, endgame) ELSE toBuilding(reincarnate(y))

croakCounted(y, yes) ==
  IF y.g.closng THEN terminate(rspeak(y, "DEATH_CLOSING"), endgame)
  ELSE croakAnswered(yesOrNo(y, "obituaries.query", "obituaries.yesResponse", "OK_MAN", yes),
                     yes)

\* croak() reads obituaries[numdie] first: beyond the table there is no
\* entry to read the query of
croak(y, yes) ==
  IF ~Running(y) THEN y
  ELSE IF y.g.numdie < 0 \/ y.g.numdie >= NDEATHS THEN TypeError(y)
  ELSE croakCounted(SetG(y, [y.g EXCEPT !.numdie = @ + 1]), yes)

\* ------------------------------------------------------------------------
\* dwarves.ts
\* ------------------------------------------------------------------------
PIRATE == NDWARVES
DALTLC == LOC_NUGGET
\* the places tk[] has room for
TkLength == 21

\* the treasure the pirate leaves where it is: the pyramid, in its own room
\* or in the room of the emerald
pirateSpares(g, treasure) ==
  /\ treasure = PYRAMID
  /\ g.loc = WorldObjects[PYRAMID].plac \/ g.loc = WorldObjects[EMERALD].plac

\* the treasures the first loop of spottedByPirate() counts, and those of
\* them that are carried
snarfed(g) ==
  {t \in 1..NOBJECTS : /\ WorldObjects[t].isTreasure
                        /\ ~pirateSpares(g, t)
                        /\ (TOTING(g, t) \/ HERE(g, t))}
robbed(g) ==
  {t \in 1..NOBJECTS : WorldObjects[t].isTreasure /\ ~pirateSpares(g, t) /\ TOTING(g, t)}

\* the chest is placed before the last treasure is found
chestForced(g) ==
  /\ g.tally = 1
  /\ snarfed(g) = {}
  /\ g.objects[CHEST].place = LOC_NOWHERE
  /\ HERE(g, LAMP)
  /\ g.objects[LAMP].prop = LAMP_BRIGHT

\* the chest and the message go to the maze, and the pirate with them
pirateGone(y) ==
  SetG(y, [y.g EXCEPT !.dwarves[PIRATE] =
                        [seen |-> 0, loc |-> y.g.chloc, oldloc |-> y.g.chloc]])

pirateHides(y) == pirateGone(move(move(y, CHEST, y.g.chloc), MESSAG, y.g.chloc2))

\* the chest stays: the pirate who has moved may be heard
pirateRustles(y) ==
  IF Running(y) /\ y.g.dwarves[PIRATE].oldloc # y.g.dwarves[PIRATE].loc
  THEN IF PCT(y.g, 20)
       THEN rspeak(SetG(y, getNextLcgValue(y.g)), "PIRATE_RUSTLES")
       ELSE SetG(y, getNextLcgValue(y.g))
  ELSE y

\* the second loop of spottedByPirate(): every treasure here or carried
\* goes to the maze
pirateTakesOne(y, treasure) ==
  IF TOTING(y.g, treasure) \/ (AT(y.g, treasure) /\ y.g.objects[treasure].fixed = IS_FREE)
  THEN drop(IF AT(y.g, treasure) /\ y.g.objects[treasure].fixed = IS_FREE
            THEN carry(y, treasure, y.g.loc) ELSE y,
            treasure, y.g.chloc)
  ELSE y

RECURSIVE pirateTakes(_, _)
pirateTakes(y, treasure) ==
  IF treasure > NOBJECTS \/ ~Running(y) THEN y
  ELSE pirateTakes(IF WorldObjects[treasure].isTreasure /\ ~pirateSpares(y.g, treasure)
                   THEN pirateTakesOne(y, treasure) ELSE y,
                   treasure + 1)

pirateRobs(y, robplayer) ==
  IF robplayer THEN pirateTakes(rspeak(y, "PIRATE_POUNCES"), 1) ELSE y

pirateMoves(y, movechest) ==
  IF movechest THEN pirateHides(y) ELSE pirateRustles(y)

\* a pirate that goes on robbing after the chest has been found
spottedByPirate_greedy(y, i) ==
  IF i # PIRATE THEN [y |-> y, ret |-> FALSE]
  ELSE IF y.g.loc = y.g.chloc THEN [y |-> y, ret |-> TRUE]
  ELSE IF robbed(y.g) # {}
  THEN [y |-> pirateRobs(pirateMoves(y, TRUE), TRUE), ret |-> TRUE]
  ELSE IF chestForced(y.g)
  THEN [y |-> pirateMoves(rspeak(y, "PIRATE_SPOTTED"), TRUE), ret |-> TRUE]
  ELSE [y |-> pirateMoves(y, FALSE), ret |-> TRUE]

\* spottedByPirate() answers whether dwarf i is the pirate
spottedByPirate(y, i) ==
  IF i # PIRATE THEN [y |-> y, ret |-> FALSE]
  ELSE IF y.g.loc = y.g.chloc \/ ~OBJECT_IS_NOTFOUND(y.g, CHEST) THEN [y |-> y, ret |-> TRUE]
  ELSE IF robbed(y.g) # {}
  THEN [y |-> pirateRobs(pirateMoves(y, TRUE), TRUE), ret |-> TRUE]
  ELSE IF chestForced(y.g)
  THEN [y |-> pirateMoves(rspeak(y, "PIRATE_SPOTTED"), TRUE), ret |-> TRUE]
  ELSE [y |-> pirateMoves(y, FALSE), ret |-> TRUE]

\* dwarfmove(), dflag 1: the two draws that may kill a dwarf each
cullOne(g) ==
  [getNextLcgValue(getNextLcgValue(g)) EXCEPT
     !.dwarves[1 + randrange(g, NDWARVES - 1)].loc =
        IF PCT(getNextLcgValue(g), 50) THEN 0 ELSE @]

\* a pass that relocates no dwarf
relocate_stay(g) ==
  [g EXCEPT !.dwarves = [i \in 0..NDWARVES |->
     IF i >= 1 /\ i <= NDWARVES - 1
     THEN [seen |-> @[i].seen, loc |-> @[i].loc, oldloc |-> @[i].loc]
     ELSE @[i]]]

\* a dwarf standing where the player is goes to the alternate place; every
\* dwarf has come from where it is
relocate(g) ==
  [g EXCEPT !.dwarves = [i \in 0..NDWARVES |->
     IF i >= 1 /\ i <= NDWARVES - 1
     THEN [seen |-> @[i].seen,
           loc |-> IF @[i].loc = g.loc THEN DALTLC ELSE @[i].loc,
           oldloc |-> IF @[i].loc = g.loc THEN DALTLC ELSE @[i].loc]
     ELSE @[i]]]

cull(y) ==
  [y |-> drop(rspeak(SetG(y, relocate(cullOne(cullOne([y.g EXCEPT !.dflag = 2])))),
                     "DWARF_RAN"),
              AXE, y.g.loc),
   ret |-> TRUE]

\* the first encounter waits for a deep room and for its draws
dwarfFirst(y) ==
  IF ~INDEEP(y.g.loc) THEN [y |-> y, ret |-> TRUE]
  ELSE IF ~PCT(y.g, 95) THEN cull(SetG(y, getNextLcgValue(y.g)))
  ELSE IF ~CNDBIT(y.g.loc, COND_NOBACK) THEN [y |-> SetG(y, getNextLcgValue(y.g)), ret |-> TRUE]
  ELSE IF PCT(getNextLcgValue(y.g), 85)
  THEN [y |-> SetG(y, getNextLcgValue(getNextLcgValue(y.g))), ret |-> TRUE]
  ELSE cull(SetG(y, getNextLcgValue(getNextLcgValue(y.g))))

\* the places dwarf i might go, from rule kk on; newloc is left at the
\* destination of the last rule looked at
RECURSIVE tkFill(_, _, _, _)
tkFill(g, i, kk, tk) ==
  LET nl == travel[kk].destval
      ok == /\ travel[kk].desttype = dest_goto
            /\ INDEEP(nl)
            /\ nl # g.dwarves[i].oldloc
            /\ ~(Len(tk) >= 1 /\ nl = tk[Len(tk)])
            /\ ~(Len(tk) + 1 >= TkLength - 1)
            /\ nl # g.dwarves[i].loc
            /\ ~FORCED(nl)
            /\ ~(i = PIRATE /\ CNDBIT(nl, COND_NOARRR))
            /\ ~travel[kk].nodwarves
  IN IF travel[kk].stop
     THEN [tk |-> IF ok THEN Append(tk, nl) ELSE tk, newloc |-> nl]
     ELSE tkFill(g, i, kk + 1, IF ok THEN Append(tk, nl) ELSE tk)

\* a dwarf with nowhere to go stays where it is
dwarfGoes_stays(g, i, f) ==
  LET d  == g.dwarves[i]
      n  == Len(f.tk) + 1
      to == Append(f.tk, d.loc)[1 + randrange(g, IF n >= 2 THEN n - 1 ELSE n)]
  IN [getNextLcgValue(g) EXCEPT
        !.newloc = f.newloc,
        !.dwarves[i] = [seen |-> IF (d.seen # 0 /\ INDEEP(g.loc)) \/ to = g.loc \/ d.loc = g.loc
                                 THEN 1 ELSE 0,
                        loc |-> to, oldloc |-> d.loc]]

\* dwarf i goes to one of the places f.tk, drawn at random, or back where it
\* came from when there is none; it has seen the player when it had and the
\* player is deep, or when it is or was where the player is
dwarfGoes(g, i, f) ==
  LET d  == g.dwarves[i]
      n  == Len(f.tk) + 1
      to == Append(f.tk, d.oldloc)[1 + randrange(g, IF n >= 2 THEN n - 1 ELSE n)]
  IN [getNextLcgValue(g) EXCEPT
        !.newloc = f.newloc,
        !.dwarves[i] = [seen |-> IF (d.seen # 0 /\ INDEEP(g.loc)) \/ to = g.loc \/ d.loc = g.loc
                                 THEN 1 ELSE 0,
                        loc |-> to, oldloc |-> d.loc]]

dwarfWalks(g, i) ==
  dwarfGoes(g, i, IF tkey[g.dwarves[i].loc] # 0
                  THEN tkFill(g, i, tkey[g.dwarves[i].loc], <<>>)
                  ELSE [tk |-> <<>>, newloc |-> g.newloc])

\* knives that are sharp from the first
dwarfThreatens_keen(a, i) ==
  LET g == a.y.g
  IN IF g.dwarves[i].oldloc = g.dwarves[i].loc
     THEN [y |-> SetG(a.y, [getNextLcgValue(g) EXCEPT
                              !.dtotal = @ + 1,
                              !.knfloc = IF @ >= LOC_NOWHERE THEN g.loc ELSE @]),
           attack |-> a.attack + 1,
           stick |-> IF randrange(g, 1000) < 95 * (g.dflag - 1) THEN a.stick + 1 ELSE a.stick]
     ELSE [a EXCEPT !.y = SetG(a.y, [g EXCEPT !.dtotal = @ + 1])]

\* every dwarf in the room attacks, whether it has moved or not
dwarfThreatens_all(a, i) ==
  [y |-> SetG(a.y, [getNextLcgValue(a.y.g) EXCEPT
                      !.dtotal = @ + 1,
                      !.knfloc = IF @ >= LOC_NOWHERE THEN a.y.g.loc ELSE @]),
   attack |-> a.attack + 1,
   stick |-> IF randrange(a.y.g, 1000) < 95 * (a.y.g.dflag - 2) THEN a.stick + 1 ELSE a.stick]

\* the dwarf that is in the room: it attacks when it has not moved
dwarfThreatens(a, i) ==
  LET g == a.y.g
  IN IF g.dwarves[i].oldloc = g.dwarves[i].loc
     THEN [y |-> SetG(a.y, [getNextLcgValue(g) EXCEPT
                              !.dtotal = @ + 1,
                              !.knfloc = IF @ >= LOC_NOWHERE THEN g.loc ELSE @]),
           attack |-> a.attack + 1,
           stick |-> IF randrange(g, 1000) < 95 * (g.dflag - 2) THEN a.stick + 1 ELSE a.stick]
     ELSE [a EXCEPT !.y = SetG(a.y, [g EXCEPT !.dtotal = @ + 1])]

dwarfAfterPirate(a, i, r) ==
  IF r.ret THEN [a EXCEPT !.y = r.y] ELSE dwarfThreatens([a EXCEPT !.y = r.y], i)

\* a dwarf that has seen the player sticks with the player
dwarfMeets(a, i) ==
  IF a.y.g.dwarves[i].seen = 0 THEN a
  ELSE dwarfAfterPirate(a, i,
         spottedByPirate(SetG(a.y, [a.y.g EXCEPT !.dwarves[i].loc = a.y.g.loc]), i))

dwarfStep(a, i) ==
  IF a.y.g.dwarves[i].loc = 0 THEN a
  ELSE dwarfMeets([a EXCEPT !.y = SetG(a.y, dwarfWalks(a.y.g, i))], i)

RECURSIVE dwarfLoop(_, _)
dwarfLoop(a, i) ==
  IF i > NDWARVES \/ ~Running(a.y) THEN a
  ELSE dwarfLoop(dwarfStep(a, i), i + 1)

\* what the knives do
dwarfKnives(y, attack, stick) ==
  IF attack > 1
  THEN speak(speak(y, "THROWN_KNIVES", <<attack>>),
             IF stick > 1 THEN "MULTIPLE_HITS" ELSE IF stick = 1 THEN "ONE_HIT" ELSE "NONE_HIT",
             <<stick>>)
  ELSE rspeak(rspeak(y, "KNIFE_THROWN"), IF stick # 0 THEN "GETS_YOU" ELSE "MISSES_YOU")

dwarfAttack(y, attack, stick) ==
  IF stick = 0 THEN [y |-> dwarfKnives(y, attack, stick), ret |-> TRUE]
  ELSE [y |-> SetG(dwarfKnives(y, attack, stick),
                   [y.g EXCEPT !.oldlc2 = y.g.loc]),
        ret |-> FALSE]

\* the end of dwarfmove(): the player is told
dwarfTell(a) ==
  IF a.y.g.dtotal = 0 THEN [y |-> a.y, ret |-> TRUE]
  ELSE IF a.attack = 0
  THEN [y |-> speak(a.y, IF a.y.g.dtotal = 1 THEN "DWARF_SINGLE" ELSE "DWARF_PACK",
                    <<a.y.g.dtotal>>),
        ret |-> TRUE]
  ELSE dwarfAttack(speak(SetG(a.y, [a.y.g EXCEPT !.dflag = IF @ = 2 THEN 3 ELSE @]),
                         IF a.y.g.dtotal = 1 THEN "DWARF_SINGLE" ELSE "DWARF_PACK",
                         <<a.y.g.dtotal>>),
                   a.attack, a.stick)

\* dwarves that wake wherever the player is
dwarfmove_eager(y) ==
  IF Running(y) /\ y.g.dflag = 0
  THEN [y |-> SetG(y, [y.g EXCEPT !.dflag = 1]), ret |-> TRUE]
  ELSE [y |-> y, ret |-> TRUE]

\* dwarfmove() answers whether the player lives
dwarfmove(y) ==
  IF ~Running(y) THEN [y |-> y, ret |-> TRUE]
  ELSE IF y.g.loc = LOC_NOWHERE \/ FORCED(y.g.loc) \/ CNDBIT(y.g.newloc, COND_NOARRR)
  THEN [y |-> y, ret |-> TRUE]
  ELSE IF y.g.dflag = 0
  THEN [y |-> IF INDEEP(y.g.loc) THEN SetG(y, [y.g EXCEPT !.dflag = 1]) ELSE y, ret |-> TRUE]
  ELSE IF y.g.dflag = 1 THEN dwarfFirst(y)
  ELSE dwarfTell(dwarfLoop([y |-> SetG(y, [y.g EXCEPT !.dtotal = 0]),
                            attack |-> 0, stick |-> 0], 1))

\* doMove(): the player a dwarf has killed dies
dwarfKills(r, yes) == IF r.ret THEN r.y ELSE croak(r.y, yes)

\* doMove(): no way out of the cave that is closing
exitClosed(y) ==
  IF Running(y) /\ OUTSIDE(y.g.newloc) /\ y.g.newloc # 0 /\ y.g.closng
  THEN SetG(rspeak(y, "EXIT_CLOSED"),
            [y.g EXCEPT !.newloc = y.g.loc,
                        !.clock2 = IF ~y.g.panic THEN PANICTIME ELSE @,
                        !.panic = TRUE])
  ELSE y

\* doMove(): a dwarf that has seen the player and comes from where the
\* player goes blocks the way
dwarfBlock(y) ==
  IF /\ Running(y)
     /\ y.g.newloc # y.g.loc
     /\ ~FORCED(y.g.loc)
     /\ ~CNDBIT(y.g.loc, COND_NOARRR)
     /\ \E i \in 1..(NDWARVES - 1) :
          y.g.dwarves[i].oldloc = y.g.newloc /\ y.g.dwarves[i].seen # 0
  THEN SetG(rspeak(y, "DWARF_BLOCK"), [y.g EXCEPT !.newloc = y.g.loc])
  ELSE y

arrive(y) == SetG(y, [y.g EXCEPT !.loc = y.g.newloc])

lost(y, yes) == IF Running(y) /\ y.g.loc = LOC_NOWHERE THEN croak(y, yes) ELSE y

\* doMove(): the pit, once the number is drawn
pitDrawn(y, falls, yes) ==
  IF falls
  THEN [y |-> croak(SetG(rspeak(y, "PIT_FALL"), [y.g EXCEPT !.oldlc2 = y.g.loc]), yes),
        ret |-> FALSE]
  ELSE [y |-> y, ret |-> TRUE]

pit(y, yes) ==
  IF ~Running(y) THEN [y |-> y, ret |-> FALSE]
  ELSE IF ~FORCED(y.g.loc) /\ isDarkHere(y.g) /\ y.g.wzdark
  THEN pitDrawn(SetG(y, getNextLcgValue(y.g)), PCT(y.g, PIT_KILL_PROB), yes)
  ELSE [y |-> y, ret |-> TRUE]

\* doMove() answers whether the move is over; after a fall into a pit it is
\* not, and gameLoop() calls doMove() again
doMove(y, yes) ==
  pit(lost(dwarfKills(dwarfmove(arrive(dwarfBlock(exitClosed(y)))), yes), yes), yes)

\* From the second inner loop of doCommand() up to the prompt: the cave
\* closed, objects carried unseen are stashed; the darkness is noted; the
\* knife is lost; the hints are looked at.
RECURSIVE stashToted(_, _)
stashToted(g, i) ==
  IF i > NOBJECTS THEN g
  ELSE IF TOTING(g, i) /\ (OBJECT_IS_NOTFOUND(g, i) \/ OBJECT_IS_STASHED(g, i))
  THEN stashToted(OBJECT_STASHIFY(g, i, g.objects[i].prop), i + 1)
  ELSE stashToted(g, i + 1)

noteDark(y) ==
  SetG(y, [y.g EXCEPT !.wzdark = isDarkHere(y.g),
                      !.knfloc = IF @ > LOC_NOWHERE /\ @ # y.g.loc THEN LOC_NOWHERE ELSE @])

toPrompt(y) ==
  IF ~Running(y) THEN y
  ELSE checkhints(noteDark(IF y.g.closed THEN SetG(y, stashToted(y.g, 1)) ELSE y))

\* gameLoop() from a call of doMove() to the next prompt: moves until one
\* is over, then doCommand() describes the place, and in a forced place
\* moves on.  A walk of more forced places than there are places is in a
\* cycle and never reaches a prompt.
MoveFuel == 2 * NLOCATIONS

RECURSIVE moveAndDescribe(_, _, _)
RECURSIVE afterMove(_, _, _)
RECURSIVE describeAndList(_, _, _)
moveAndDescribe(y, yes, fuel) ==
  IF ~Running(y) THEN y
  ELSE IF fuel = 0 THEN [y EXCEPT !.st = "hung"]
  ELSE afterMove(doMove(y, yes), yes, fuel - 1)

afterMove(r, yes, fuel) ==
  IF r.ret THEN describeAndList(r.y, yes, fuel) ELSE moveAndDescribe(r.y, yes, fuel)

describeAndList(y, yes, fuel) ==
  IF ~Running(y) THEN y
  ELSE IF FORCED(y.g.loc)
  THEN moveAndDescribe(playermove(describeLocation(y), "HERE"), yes, fuel)
  ELSE toPrompt(listobjects(describeLocation(y)))

\* ------------------------------------------------------------------------
\* actions.ts: the verbs carry, drop, attack, light, save and resume
\* ------------------------------------------------------------------------
\* what a verb handler leaves: the context and the phase code
Ret(y, code) == [y |-> y, code |-> code]

\* speak(actions[verb].message): the default message of the verb
actionMessage(y, verb) == speak(y, "actions.message", <<>>)

\* fill(): the bottle is filled from the liquid of the place
fillBottle(y) ==
  IF TOTING(y.g, BOTTLE)
  THEN SetG(y, [y.g EXCEPT !.objects[LIQUID(y.g)].place = CARRIED])
  ELSE y

\* fill() for the bottle; the vase and the urn are not in the reduced table
fill(y, verb, obj) ==
  IF ~Running(y) THEN Ret(y, GO_TERMINATE)
  ELSE IF obj # INTRANSITIVE /\ obj # BOTTLE THEN Ret(actionMessage(y, verb), GO_CLEAROBJ)
  ELSE IF obj = INTRANSITIVE /\ ~HERE(y.g, BOTTLE) THEN Ret(y, GO_UNKNOWN)
  ELSE IF LIQUID(y.g) # NO_OBJECT THEN Ret(rspeak(y, "BOTTLE_FULL"), GO_CLEAROBJ)
  ELSE IF LIQLOC(y.g.loc) = NO_OBJECT THEN Ret(rspeak(y, "NO_LIQUID"), GO_CLEAROBJ)
  ELSE Ret(fillBottle(stateChange(y, BOTTLE,
                        IF LIQLOC(y.g.loc) = OIL THEN OIL_BOTTLE ELSE WATER_BOTTLE)),
           GO_CLEAROBJ)

\* vcarry(): the caged bird and the cage are taken together
carryMate(y, obj) ==
  IF (obj = BIRD \/ obj = CAGE) /\ OBJECT_STATE_EQUALS(y.g, BIRD, BIRD_CAGED)
  THEN carry(y, BIRD + CAGE - obj, y.g.loc) ELSE y

\* vcarry(): the liquid of the bottle goes with the bottle
liquidCarried(y, obj) ==
  IF Running(y) /\ obj = BOTTLE /\ LIQUID(y.g) # NO_OBJECT
  THEN SetG(y, [y.g EXCEPT !.objects[LIQUID(y.g)].place = CARRIED]) ELSE y

\* vcarry(): a gemstone taken before it was seen is set found
gemFound(y, obj) ==
  IF Running(y) /\ GSTONE(obj) /\ ~OBJECT_IS_FOUND(y.g, obj)
  THEN SetG(y, OBJECT_SET_FOUND(y.g, obj)) ELSE y

\* vcarry() from the carry() calls on
vcarryTake(y, obj) ==
  Ret(rspeak(gemFound(liquidCarried(carry(carryMate(y, obj), obj, y.g.loc), obj), obj),
             "OK_MAN"),
      GO_CLEAROBJ)

\* vcarry() from the test of the load on; the rod is not in the reduced table
vcarryFree(y, obj) ==
  IF y.g.holdng >= INVLIMIT THEN Ret(rspeak(y, "CARRY_LIMIT"), GO_CLEAROBJ)
  ELSE IF obj = BIRD /\ y.g.objects[BIRD].prop # BIRD_CAGED /\ ~OBJECT_IS_STASHED(y.g, BIRD)
  THEN IF y.g.objects[BIRD].prop = BIRD_FOREST_UNCAGED
       THEN Ret(rspeak(destroy(y, BIRD), "BIRD_CRAP"), GO_CLEAROBJ)
       ELSE IF ~TOTING(y.g, CAGE) THEN Ret(rspeak(y, "CANNOT_CARRY"), GO_CLEAROBJ)
       ELSE vcarryTake(SetG(y, [y.g EXCEPT !.objects[BIRD].prop = BIRD_CAGED]), obj)
  ELSE vcarryTake(y, obj)

\* vcarry() once the object is known
vcarryKnown(y, verb, obj) ==
  IF TOTING(y.g, obj) THEN Ret(actionMessage(y, verb), GO_CLEAROBJ)
  ELSE IF y.g.objects[obj].fixed # IS_FREE THEN Ret(rspeak(y, "YOU_JOKING"), GO_CLEAROBJ)
  ELSE IF obj = WATER \/ obj = OIL
  THEN IF ~HERE(y.g, BOTTLE) \/ LIQUID(y.g) # obj
       THEN IF ~TOTING(y.g, BOTTLE) THEN Ret(rspeak(y, "NO_CONTAINER"), GO_CLEAROBJ)
            ELSE IF y.g.objects[BOTTLE].prop = EMPTY_BOTTLE THEN fill(y, verb, BOTTLE)
            ELSE Ret(rspeak(y, "BOTTLE_FULL"), GO_CLEAROBJ)
       ELSE vcarryFree(y, BOTTLE)
  ELSE vcarryFree(y, obj)

\* vcarry(): said without an object it takes the only object of the place;
\* that may be the second id of a two-placed object, which is beyond the
\* object table
vcarry(y, verb, obj) ==
  IF ~Running(y) THEN Ret(y, GO_TERMINATE)
  ELSE IF obj # INTRANSITIVE THEN vcarryKnown(y, verb, obj)
  ELSE IF \/ y.g.locs[y.g.loc].atloc = NO_OBJECT
          \/ y.g.link[y.g.locs[y.g.loc].atloc] # 0
          \/ atdwrf(y.g, y.g.loc) > 0
  THEN Ret(y, GO_UNKNOWN)
  ELSE IF y.g.locs[y.g.loc].atloc > NOBJECTS THEN Ret(TypeError(y), GO_TERMINATE)
  ELSE vcarryKnown(y, verb, y.g.locs[y.g.loc].atloc)

\* discard(): the liquid of the bottle put down is nowhere
liquidGone(y, obj) ==
  IF obj = BOTTLE /\ LIQUID(y.g) # NO_OBJECT
  THEN SetG(y, [y.g EXCEPT !.objects[LIQUID(y.g)].place = LOC_NOWHERE]) ELSE y

\* discard(): the caged bird is put down with the cage
birdWithCage(y, obj) ==
  IF obj = CAGE /\ y.g.objects[BIRD].prop = BIRD_CAGED THEN drop(y, BIRD, y.g.loc) ELSE y

\* discard(): the bird put down is out of the cage
birdFreed(y, obj) ==
  IF obj = BIRD
  THEN SetG(y, [y.g EXCEPT !.objects[BIRD].prop =
                  IF FOREST(y.g.loc) THEN BIRD_FOREST_UNCAGED ELSE BIRD_UNCAGED])
  ELSE y

\* discard(): the bird put down where the snake is drives the snake away,
\* or wakes the dwarves once the cave is closed
chased(y) == SetG(y, [y.g EXCEPT !.objects[SNAKE].prop = SNAKE_CHASED])
birdAttacks(y) ==
  IF y.g.closed THEN Ret(rspeak(y, "BIRD_ATTACKS"), GO_DWARFWAKE)
  ELSE Ret(drop(birdFreed(chased(destroy(rspeak(y, "BIRD_ATTACKS"), SNAKE)), BIRD),
                BIRD, y.g.loc),
           GO_CLEAROBJ)

discardToted(y, obj) ==
  IF obj = BIRD /\ HERE(y.g, SNAKE) THEN birdAttacks(y)
  ELSE Ret(drop(birdFreed(rspeak(birdWithCage(liquidGone(y, obj), obj), "OK_MAN"), obj),
                obj, y.g.loc),
           GO_CLEAROBJ)

\* discard(): the rod, the cavity, the vending machine, the troll, the vase
\* and the dragon are not in the reduced table
discard(y, verb, obj) ==
  IF ~Running(y) THEN Ret(y, GO_TERMINATE)
  ELSE IF ~TOTING(y.g, obj) THEN Ret(actionMessage(y, verb), GO_CLEAROBJ)
  ELSE discardToted(y, IF LIQUID(y.g) = obj THEN BOTTLE ELSE obj)

attackKnown(y, verb, obj) ==
  IF obj = BIRD
  THEN IF y.g.closed THEN Ret(rspeak(y, "UNHAPPY_BIRD"), GO_CLEAROBJ)
       ELSE Ret(rspeak(destroy(y, BIRD), "BIRD_DEAD"), GO_CLEAROBJ)
  ELSE IF obj = INTRANSITIVE THEN Ret(rspeak(y, "NO_TARGET"), GO_CLEAROBJ)
  ELSE Ret(actionMessage(y, verb), GO_CLEAROBJ)

\* attack(): of what can be attacked the reduced table has the bird
attack(y, verb, obj) ==
  IF ~Running(y) THEN Ret(y, GO_TERMINATE)
  ELSE attackKnown(y, verb, IF obj = INTRANSITIVE /\ HERE(y.g, BIRD) THEN BIRD ELSE obj)

lightKnown(y, verb, obj) ==
  IF obj # LAMP THEN Ret(actionMessage(y, verb), GO_CLEAROBJ)
  ELSE IF y.g.limit < 0 THEN Ret(rspeak(y, "LAMP_OUT"), GO_CLEAROBJ)
  ELSE Ret(stateChange(y, LAMP, LAMP_BRIGHT), IF y.g.wzdark THEN GO_TOP ELSE GO_CLEAROBJ)

\* light(): the urn is not in the reduced table
light(y, verb, obj) ==
  IF ~Running(y) THEN Ret(y, GO_TERMINATE)
  ELSE IF obj # INTRANSITIVE THEN lightKnown(y, verb, obj)
  ELSE IF HERE(y.g, LAMP) /\ y.g.objects[LAMP].prop = LAMP_DARK /\ y.g.limit >= 0
  THEN lightKnown(y, verb, LAMP)
  ELSE Ret(y, GO_UNKNOWN)

\* Action: the ids of the words of the giant
FEE == 25
FIE == 26
FOE == 27
FOO == 28
FUM == 29
bigword == [w \in {"FEE", "FIE", "FOE", "FOO", "FUM"} |->
              CASE w = "FEE" -> FEE [] w = "FIE" -> FIE [] w = "FOE" -> FOE
                [] w = "FOO" -> FOO [] OTHER -> FUM]

abs(n) == IF n < 0 THEN 0 - n ELSE n

\* bigwords(): the troll is paid with eggs that were thrown to him
trollPaid(y) ==
  IF /\ y.g.objects[EGGS].place = LOC_NOWHERE
     /\ y.g.objects[TROLL].place = LOC_NOWHERE
     /\ y.g.objects[TROLL].prop = TROLL_UNPAID
  THEN SetG(y, [y.g EXCEPT !.objects[TROLL].prop = TROLL_PAIDONCE]) ELSE y

\* what the player sees of the eggs
eggsSeen(y) ==
  pspeak(y, EGGS, "look",
         IF HERE(y.g, EGGS) THEN EGGS_VANISHED
         ELSE IF y.g.loc = WorldObjects[EGGS].plac THEN EGGS_HERE ELSE EGGS_DONE)

\* the eggs go back wherever the word is said
eggsReturn_always(y) == move(eggsSeen(trollPaid(y)), EGGS, WorldObjects[EGGS].plac)

\* the last word is said in its turn: the eggs go back to their place
eggsReturn(y) ==
  IF \/ y.g.objects[EGGS].place = WorldObjects[EGGS].plac
     \/ TOTING(y.g, EGGS) /\ y.g.loc = WorldObjects[EGGS].plac
  THEN rspeak(y, "NOTHING_HAPPENS")
  ELSE move(eggsSeen(trollPaid(y)), EGGS, WorldObjects[EGGS].plac)

\* a word of the giant said in its turn
inTurn(y, id) ==
  IF id # FOO THEN rspeak(SetG(y, [y.g EXCEPT !.foobar = id]), "OK_MAN")
  ELSE eggsReturn(SetG(y, [y.g EXCEPT !.foobar = WORD_EMPTY]))

\* bigwords(): settings.oldstyle is off
bigwords(y, id) ==
  IF ~Running(y) THEN Ret(y, GO_TERMINATE)
  ELSE IF abs(y.g.foobar) = WORD_EMPTY /\ id \in {FIE, FOE, FOO, FUM}
  THEN Ret(rspeak(y, "NOTHING_HAPPENS"), GO_CLEAROBJ)
  ELSE IF \/ abs(y.g.foobar) = WORD_EMPTY /\ id = FEE
          \/ abs(y.g.foobar) = FEE /\ id = FIE
          \/ abs(y.g.foobar) = FIE /\ id = FOE
          \/ abs(y.g.foobar) = FOE /\ id = FOO
  THEN Ret(inTurn(y, id), GO_CLEAROBJ)
  ELSE Ret(SetG(rspeak(y, IF y.g.seenbigwords THEN "START_OVER" ELSE "WELL_POINTLESS"),
                [y.g EXCEPT !.foobar = WORD_EMPTY]),
           GO_CLEAROBJ)

\* feed(): the bear is fed and tamed
bearFed(y) ==
  stateChange(SetG(destroy(y, FOOD),
                   [destroy(y, FOOD).g EXCEPT !.objects[AXE].fixed = IS_FREE,
                                              !.objects[AXE].prop = AXE_HERE]),
              BEAR, SITTING_BEAR)

\* the snake takes the bird whether the cave is closed or not
feedSnake_closed(y) ==
  IF HERE(y.g, BIRD) THEN rspeak(destroy(y, BIRD), "BIRD_DEVOURED")
  ELSE rspeak(y, "NOTHING_EDIBLE")

feedSnake(y) ==
  IF ~y.g.closed /\ HERE(y.g, BIRD) THEN rspeak(destroy(y, BIRD), "BIRD_DEVOURED")
  ELSE rspeak(y, "NOTHING_EDIBLE")

\* feed(): the dragon and the ogre are not in the reduced table
feed(y, verb, obj) ==
  IF ~Running(y) THEN Ret(y, GO_TERMINATE)
  ELSE Ret(CASE obj = BIRD -> rspeak(y, "BIRD_PINING")
             [] obj = SNAKE -> feedSnake(y)
             [] obj = TROLL -> rspeak(y, "TROLL_VICES")
             [] obj = DWARF ->
                  IF HERE(y.g, FOOD)
                  THEN rspeak(SetG(y, [y.g EXCEPT !.dflag = @ + 2]), "REALLY_MAD")
                  ELSE actionMessage(y, verb)
             [] obj = BEAR ->
                  IF y.g.objects[BEAR].prop = BEAR_DEAD THEN rspeak(y, "RIDICULOUS_ATTEMPT")
                  ELSE IF y.g.objects[BEAR].prop = UNTAMED_BEAR
                  THEN IF HERE(y.g, FOOD) THEN bearFed(y) ELSE rspeak(y, "NOTHING_EDIBLE")
                  ELSE actionMessage(y, verb)
             [] OTHER -> rspeak(y, "AM_GAME"),
           GO_CLEAROBJ)

\* chain(): the chain is unlocked from the bear, or locked again
chainLocked(y) ==
  Ret(rspeak(SetG(y, [y.g EXCEPT !.objects[CHAIN].fixed = IS_FIXED]), "CHAIN_LOCKED"),
      GO_CLEAROBJ)

chainFixed(y) ==
  chainLocked(IF TOTING(y.g, CHAIN) THEN drop(y, CHAIN, y.g.loc) ELSE y)

chainUnlocked(g) ==
  [g EXCEPT !.objects[CHAIN].prop = CHAIN_HEAP,
            !.objects[CHAIN].fixed = IS_FREE,
            !.objects[BEAR].prop = IF @ # BEAR_DEAD THEN CONTENTED_BEAR ELSE @,
            !.objects[BEAR].fixed = IF g.objects[BEAR].prop = BEAR_DEAD THEN IS_FIXED ELSE IS_FREE]

chain(y, verb) ==
  IF verb # "LOCK"
  THEN IF y.g.objects[BEAR].prop = UNTAMED_BEAR THEN Ret(rspeak(y, "BEAR_BLOCKS"), GO_CLEAROBJ)
       ELSE IF y.g.objects[CHAIN].prop = CHAIN_HEAP
       THEN Ret(rspeak(y, "ALREADY_UNLOCKED"), GO_CLEAROBJ)
       ELSE Ret(rspeak(SetG(y, chainUnlocked(y.g)), "CHAIN_UNLOCKED"), GO_CLEAROBJ)
  ELSE IF y.g.objects[CHAIN].prop # CHAIN_HEAP
  THEN Ret(rspeak(y, "ALREADY_LOCKED"), GO_CLEAROBJ)
  ELSE IF y.g.loc # WorldObjects[CHAIN].plac THEN Ret(rspeak(y, "NO_LOCKSITE"), GO_CLEAROBJ)
  ELSE chainFixed(SetG(y, [y.g EXCEPT !.objects[CHAIN].prop = CHAIN_FIXED]))

\* lock(): the grate is not to be opened once the cave is closing
\* the second clock is set again at every try
grateShut_again(y) ==
  SetG(rspeak(y, "EXIT_CLOSED"), [y.g EXCEPT !.clock2 = PANICTIME, !.panic = TRUE])

grateShut(y) ==
  SetG(rspeak(y, "EXIT_CLOSED"),
       [y.g EXCEPT !.clock2 = IF ~y.g.panic THEN PANICTIME ELSE @, !.panic = TRUE])

lockGrate(y, verb) ==
  IF ~HERE(y.g, KEYS) THEN rspeak(y, "NO_KEYS")
  ELSE IF y.g.closng THEN grateShut(y)
  ELSE stateChange(y, GRATE, IF verb = "LOCK" THEN GRATE_CLOSED ELSE GRATE_OPEN)

\* lock() once the object is known; the clam, the door and the trident are
\* not in the reduced table
lockKnown(y, verb, obj) ==
  CASE obj = CHAIN -> IF HERE(y.g, KEYS) THEN chain(y, verb)
                      ELSE Ret(rspeak(y, "NO_KEYS"), GO_CLEAROBJ)
    [] obj = GRATE -> Ret(lockGrate(y, verb), GO_CLEAROBJ)
    [] obj = OYSTER -> Ret(rspeak(y, IF verb = "LOCK" THEN "HUH_MAN"
                                     ELSE IF TOTING(y.g, OYSTER) THEN "DROP_OYSTER"
                                     ELSE "OYSTER_OPENER"),
                           GO_CLEAROBJ)
    [] obj = CAGE -> Ret(rspeak(y, "NO_LOCK"), GO_CLEAROBJ)
    [] obj = KEYS -> Ret(rspeak(y, "CANNOT_UNLOCK"), GO_CLEAROBJ)
    [] OTHER -> Ret(actionMessage(y, verb), GO_CLEAROBJ)

\* lock() said without an object: what can be locked here
lockable(g) ==
  IF HERE(g, CHAIN) THEN CHAIN
  ELSE IF AT(g, GRATE) THEN GRATE
  ELSE IF HERE(g, OYSTER) THEN OYSTER
  ELSE INTRANSITIVE

lock(y, verb, obj) ==
  IF ~Running(y) THEN Ret(y, GO_TERMINATE)
  ELSE IF obj # INTRANSITIVE THEN lockKnown(y, verb, obj)
  ELSE IF lockable(y.g) = INTRANSITIVE THEN Ret(rspeak(y, "NOTHING_LOCKED"), GO_CLEAROBJ)
  ELSE lockKnown(y, verb, lockable(y.g))

\* ------------------------------------------------------------------------
\* save.ts: suspend() and resume().  The context of a session has one more
\* field, disk: the save file on disk.
\* ------------------------------------------------------------------------
GameCtx(g, disk) == [g |-> g, out |-> <<>>, st |-> "run", eof |-> FALSE, disk |-> disk]

\* suspend() once the turns are charged; named: a file name is given
suspendCharged(y, named) ==
  IF ~named THEN Ret(y, GO_TOP)
  ELSE Ret(exit(rspeak([y EXCEPT !.disk = savefile(y.g, SAVE_VERSION)], "RESUME_HELP")),
           GO_TERMINATE)

suspendAnswered(y, yes, named) ==
  IF ~yes THEN Ret(y, GO_CLEAROBJ)
  ELSE suspendCharged(SetG(y, [y.g EXCEPT !.saved = @ + 5]), named)

\* yes: the answer to the question
suspend(y, yes, named) ==
  IF ~Running(y) THEN Ret(y, GO_TERMINATE)
  ELSE suspendAnswered(yesOrNo(rspeak(y, "SUSPEND_WARNING"),
                               "THIS_ACCEPTABLE", "OK_MAN", "OK_MAN", yes),
                       yes, named)

\* resume() from the question for the name on.  Without a file of the name,
\* the name is asked for again; the model then gives none.
resumeNamed(y, named) ==
  IF ~named THEN Ret(y, GO_TOP)
  ELSE IF y.disk = NoSave THEN Ret(rspeak(y, "Can't open file"), GO_TOP)
  ELSE Ret(restore(y, y.disk), GO_TOP)

resumeAnswered(y, yes, named) ==
  IF ~yes THEN Ret(y, GO_CLEAROBJ) ELSE resumeNamed(y, named)

resume(y, yes, named) ==
  IF ~Running(y) THEN Ret(y, GO_TERMINATE)
  ELSE IF y.g.loc # LOC_START \/ y.g.locs[LOC_START].abbrev # 1
  THEN resumeAnswered(yesOrNo(rspeak(y, "RESUME_ABANDON"),
                              "THIS_ACCEPTABLE", "OK_MAN", "OK_MAN", yes),
                      yes, named)
  ELSE resumeNamed(y, named)

\* ------------------------------------------------------------------------
\* action(): a verb said alone is intransitive; said with an object, the
\* first pass answers GO_WORD2 and the second, on the object word, makes it
\* transitive when the object is in sight
\* ------------------------------------------------------------------------
\* seed(): the generator is set from the number, and the turn is given back
seed_counted(y, verb, seedval) ==
  Ret(SetG(speak(y, "actions.message", <<seedval>>), setSeed(y.g, seedval)), GO_TOP)

seed(y, verb, seedval) ==
  Ret(SetG(speak(y, "actions.message", <<seedval>>),
           [setSeed(y.g, seedval) EXCEPT !.turns = @ - 1]),
      GO_TOP)

InSight(g, obj) ==
  \/ HERE(g, obj)
  \/ obj = DWARF /\ atdwrf(g, g.loc) > 0
  \/ /\ ~g.closed
     /\ \/ LIQUID(g) = obj /\ HERE(g, BOTTLE)
        \/ obj = LIQLOC(g.loc)

\* pour(): the water of the bottle poured on the plant makes it grow; the
\* reduced table has neither the urn nor the door, nor the plant's double
pourOut(y, verb, obj) ==
  IF obj = NO_OBJECT THEN Ret(y, GO_UNKNOWN)
  ELSE IF ~TOTING(y.g, obj) THEN Ret(actionMessage(y, verb), GO_CLEAROBJ)
  ELSE IF obj # OIL /\ obj # WATER THEN Ret(rspeak(y, "CANT_POUR"), GO_CLEAROBJ)
  ELSE LET y1 == SetG(y, [y.g EXCEPT !.objects[BOTTLE].prop = EMPTY_BOTTLE,
                                     !.objects[obj].place = LOC_NOWHERE])
       IN IF ~AT(y1.g, PLANT) THEN Ret(rspeak(y1, "GROUND_WET"), GO_CLEAROBJ)
          ELSE IF obj = WATER
          THEN Ret(stateChange(y1, PLANT, (y1.g.objects[PLANT].prop + 1) % 3), GO_MOVE)
          ELSE Ret(rspeak(y1, "SHAKING_LEAVES"), GO_CLEAROBJ)

pour(y, verb, obj) ==
  IF ~Running(y) THEN Ret(y, GO_TERMINATE)
  ELSE pourOut(y, verb, IF obj = BOTTLE \/ obj = INTRANSITIVE THEN LIQUID(y.g) ELSE obj)

\* the switch of action() on the verb said alone
intransitive(y, verb, yes, named) ==
  CASE verb = "CARRY" -> vcarry(y, verb, INTRANSITIVE)
    [] verb = "DROP" -> Ret(y, GO_UNKNOWN)
    [] verb = "ATTACK" -> attack(y, verb, INTRANSITIVE)
    [] verb = "LIGHT" -> light(y, verb, INTRANSITIVE)
    [] verb = "POUR" -> pour(y, verb, INTRANSITIVE)
    [] verb = "SAVE" -> suspend(y, yes, named)
    [] verb = "RESUME" -> resume(y, yes, named)
    [] verb = "SEED" -> Ret(rspeak(y, "NUMERIC_REQUIRED"), GO_TOP)
    [] verb = "FEED" -> Ret(y, GO_UNKNOWN)
    [] verb = "LOCK" \/ verb = "UNLOCK" -> lock(y, verb, INTRANSITIVE)
    [] verb \in DOMAIN bigword -> bigwords(y, bigword[verb])

\* the switch of action() on the verb and its object
transitive(y, verb, obj) ==
  CASE verb = "CARRY" -> vcarry(y, verb, obj)
    [] verb = "DROP" -> discard(y, verb, obj)
    [] verb = "ATTACK" -> attack(y, verb, obj)
    [] verb = "LIGHT" -> light(y, verb, obj)
    [] verb = "POUR" -> pour(y, verb, obj)
    [] verb = "FEED" -> feed(y, verb, obj)
    [] verb = "LOCK" \/ verb = "UNLOCK" -> lock(y, verb, obj)
    [] OTHER -> Ret(actionMessage(y, verb), GO_CLEAROBJ)

action(y, verb, obj, yes, named) ==
  IF ~Running(y) THEN Ret(y, GO_TERMINATE)
  ELSE IF obj = NO_OBJECT THEN intransitive(y, verb, yes, named)
  ELSE IF ~InSight(y.g, obj) THEN Ret(speak(y, "NO_SEE", <<obj>>), GO_CLEAROBJ)
  ELSE transitive(y, verb, obj)

\* ------------------------------------------------------------------------
\* vocabulary.ts.  A line of input is a sequence of characters of which the
\* model tells two kinds: the blank " ", and a whole word, written as one
\* string.  Two words of a line have at least one blank between them.
\* ------------------------------------------------------------------------
RECURSIVE trimStart(_)
trimStart(str) == IF str # <<>> /\ Head(str) = " " THEN trimStart(Tail(str)) ELSE str

RECURSIVE trimEnd(_)
trimEnd(str) ==
  IF str # <<>> /\ str[Len(str)] = " " THEN trimEnd(SubSeq(str, 1, Len(str) - 1)) ELSE str

\* String.prototype.trim()
trim(str) == trimEnd(trimStart(str))

notBlank(c) == c # " "

\* split(/\s+/) of a trimmed string: of the empty string it is the one
\* empty word
split(str) == IF str = <<>> THEN <<"">> ELSE SelectSeq(str, notBlank)

wordCount(str) ==
  IF Len(split(trim(str))) = 1 /\ split(trim(str))[1] = "" THEN 0 ELSE Len(split(trim(str)))

\* the vocabulary of the reduced tables: the motions and the actions are
\* known by their names, the objects by their numbers
motions ==
  {"EAST", "WEST", "NORTH", "SOUTH", "UP", "DOWN", "ENTER", "XYZZY", "PLUGH", "BACK",
   "LOOK", "STREAM", "NE", "SW"}
actions ==
  {"CARRY", "DROP", "ATTACK", "LIGHT", "SAVE", "RESUME", "SEED", "FEED",
   "FEE", "FIE", "FOE", "FOO", "FUM", "LOCK", "UNLOCK", "POUR"}
objectWords == [w \in {"LAMP", "WATER", "PILLOW", "ROD", "SNAKE", "BIRD", "GRATE", "DWARF", "BEAR",
                         "BOTTLE", "RUBY", "CAGE", "KEYS"} |->
                  CASE w = "LAMP" -> LAMP [] w = "WATER" -> WATER [] w = "BOTTLE" -> BOTTLE
                    [] w = "RUBY" -> RUBY [] w = "CAGE" -> CAGE
                    [] w = "KEYS" -> KEYS
                    [] w = "PILLOW" -> PILLOW [] w = "SNAKE" -> SNAKE
                    [] w = "BIRD" -> BIRD [] w = "GRATE" -> GRATE
                    [] w = "DWARF" -> DWARF [] w = "BEAR" -> BEAR [] OTHER -> ROD]
\* the words isValidInt() accepts, and what parseInt() makes of them
numerals == [w \in {"7", "11"} |-> IF w = "7" THEN 7 ELSE 11]

\* getVocabMetadata(): the type of a word.  EMPTY stands for the id
\* WORD_EMPTY and NONE for the id WORD_NOT_FOUND, both of NO_WORD_TYPE; obj
\* is the id of an object word.
Word(raw, type, obj) == [raw |-> raw, type |-> type, obj |-> obj]
getVocabMetadata(word) ==
  IF word = "" THEN Word(word, "EMPTY", NO_OBJECT)
  ELSE IF word \in motions THEN Word(word, "MOTION", NO_OBJECT)
  ELSE IF word \in DOMAIN objectWords THEN Word(word, "OBJECT", objectWords[word])
  ELSE IF word \in actions THEN Word(word, "ACTION", NO_OBJECT)
  ELSE IF word \in DOMAIN numerals THEN Word(word, "NUMERIC", NO_OBJECT)
  ELSE Word(word, "NONE", NO_OBJECT)

\* tokenize(): the first two words of the line, or empty words
tokenize(raw) ==
  <<getVocabMetadata(split(trim(raw))[1]),
    getVocabMetadata(IF Len(split(trim(raw))) >= 2 THEN split(trim(raw))[2] ELSE "")>>

\* getCommandInput() on one line of the input: it returns with the command
\* (given), or it reads on
getCommandInput(y, input) ==
  IF wordCount(input) > 2
  THEN [y |-> rspeak(y, "TWO_WORDS"), given |-> FALSE, word |-> tokenize(<<>>)]
  ELSE IF input # <<>> THEN [y |-> y, given |-> TRUE, word |-> tokenize(input)]
  ELSE [y |-> y, given |-> FALSE, word |-> tokenize(<<>>)]

\* ------------------------------------------------------------------------
\* doCommand() from the line read at the prompt to the next prompt
\* ------------------------------------------------------------------------
MotionLine(m) == [type |-> "MOTION", id |-> m, obj |-> NO_OBJECT]
ActionLine(verb, obj) == [type |-> "ACTION", id |-> verb, obj |-> obj]
UnknownLine == [type |-> "NONE", id |-> "?", obj |-> NO_OBJECT]

\* what doCommand() does with the phase code of action()
afterAction(r, yes) ==
  IF r.code = GO_TERMINATE THEN moveAndDescribe(r.y, yes, MoveFuel)
  ELSE IF r.code = GO_MOVE THEN moveAndDescribe(playermove(r.y, "NUL"), yes, MoveFuel)
  ELSE IF r.code = GO_UNKNOWN THEN toPrompt(rspeak(r.y, "DO_WHAT"))
  ELSE IF r.code = GO_DWARFWAKE THEN terminate(rspeak(r.y, "DWARVES_AWAKEN"), endgame)
  ELSE IF r.code = GO_TOP THEN describeAndList(r.y, yes, MoveFuel)
  ELSE toPrompt(r.y)

\* every input line: the foobar flag, the count of turns
countTurn(y) ==
  SetG(y, [y.g EXCEPT !.foobar = IF @ > WORD_EMPTY THEN -@ ELSE WORD_EMPTY,
                      !.turns = @ + 1])

\* the tenth "west" gets the hint that "w" will do
westCounted(y) == IF Running(y) /\ y.g.iwest = 10 THEN rspeak(y, "W_IS_WEST") ELSE y
westHint(y, line) ==
  IF Running(y) /\ line.id = "WEST"
  THEN westCounted(SetG(y, [y.g EXCEPT !.iwest = @ + 1])) ELSE y

\* clearCommand(): the object of the command, obj, is remembered
clearCommand(y, obj) == SetG(y, [y.g EXCEPT !.oldobj = obj])

\* the answer to a word that is not known
dontKnow_moves(y, yes) == moveAndDescribe(rspeak(y, "DONT_KNOW"), yes, MoveFuel)
dontKnow(y, yes) == toPrompt(clearCommand(rspeak(y, "DONT_KNOW"), NO_OBJECT))

\* doCommand() on the line, once closecheck() has answered c
dispatch(c, line, yes, named) ==
  IF c.ret THEN moveAndDescribe(c.y, yes, MoveFuel)
  ELSE IF line.type = "NONE" THEN dontKnow(c.y, yes)
  ELSE IF line.type = "MOTION"
  THEN moveAndDescribe(playermove(westHint(c.y, line), line.id), yes, MoveFuel)
  ELSE IF line.id = "SEED" /\ "arg" \in DOMAIN line
  THEN afterAction(seed(c.y, line.id, line.arg), yes)
  ELSE afterAction(action(c.y, line.id, line.obj, yes, named), yes)

doCommand(y, line, yes, named) == dispatch(closecheck(countTurn(y)), line, yes, named)

\* preprocessCommand() on "enter stream" and "enter water": the answer is
\* given at once and the command is not ready
enterWater(word) ==
  /\ word[1].type = "MOTION" /\ word[1].raw = "ENTER"
  /\ (word[2].raw = "STREAM" \/ (word[2].type = "OBJECT" /\ word[2].obj = WATER))

wet(y) == rspeak(y, IF LIQLOC(y.g.loc) = WATER THEN "FEET_WET" ELSE "WHERE_QUERY")

\* preprocessCommand() on the other commands: object and verb are put in
\* the order verb, object
verbFirst(word) ==
  IF word[1].type = "OBJECT" /\ word[2].type = "ACTION" THEN <<word[2], word[1]>> ELSE word

\* the command as doCommand() takes it up: a first word of no type is taken
\* for a motion, and the motion of the empty word is the null motion; a
\* number is not a known word
lineOf(word) ==
  CASE word[1].type = "EMPTY" -> MotionLine("NUL")
    [] word[1].type = "MOTION" -> MotionLine(word[1].raw)
    [] word[1].type = "ACTION" /\ word[2].type = "NUMERIC" ->
         [type |-> "ACTION", id |-> word[1].raw, obj |-> NO_OBJECT, arg |-> numerals[word[2].raw]]
    [] word[1].type = "ACTION" /\ word[2].type # "NUMERIC" -> ActionLine(word[1].raw, word[2].obj)
    [] OTHER -> [type |-> "NONE", id |-> word[1].raw, obj |-> NO_OBJECT]

\* doCommand() on the command getCommandInput() has returned with
commandGiven(y, word, yes, named) ==
  IF enterWater(word) THEN wet(countTurn(y))
  ELSE doCommand(y, lineOf(verbFirst(word)), yes, named)

\* one line of the input read at the prompt, up to the next read
readLine(r, yes, named) ==
  IF r.given THEN commandGiven(r.y, r.word, yes, named) ELSE r.y

\* ------------------------------------------------------------------------
\* Specification Spec: a session of the game, from prompt to prompt
\* ------------------------------------------------------------------------
NOVICELIMIT == 1000
\* the turns of a session the model follows
MaxTurns == 3

\* what the disk may hold when the session starts: nothing, or the file of
\* a game saved right after initialise()
Disks == {NoSave, savefile(initialise(createGameState, 4711), SAVE_VERSION)}

MotionWords == {"EAST", "WEST", "ENTER", "XYZZY", "NORTH", "BACK", "LOOK"}
CarryWords == {NO_OBJECT, LAMP, GRATE, CAGE, BIRD, BOTTLE, WATER, RUBY}
DropWords == {NO_OBJECT, LAMP, CAGE, BIRD, BOTTLE, WATER, RUBY}

\* the state main() has built when initialise() has returned
Init ==
  /\ travel = WorldTravel
  /\ tkey = WorldTkey
  /\ \E seedval \in Seeds : game = initialise(createGameState, seedval)
  /\ save \in Disks
  /\ out = <<>>
  /\ pc = "start"
  /\ call = NoCall

\* the welcome question of main(): the novice has a lamp of longer life
welcome(y, novice) ==
  yesOrNo(SetG(y, [y.g EXCEPT !.novice = novice,
                              !.limit = IF novice THEN NOVICELIMIT ELSE @]),
          "WELCOME_YOU", "CAVE_NEARBY", "NO_MESSAGE", novice)

\* main() after initialise(): the welcome question, then gameLoop() up to
\* the first prompt
Start ==
  /\ pc = "start"
  /\ \E novice \in BOOLEAN, eof \in BOOLEAN :
       \E y \in {moveAndDescribe(welcome([GameCtx(game, save) EXCEPT !.eof = eof], novice),
                                 FALSE, MoveFuel)} :
          /\ game' = y.g
          /\ out' = y.out
          /\ pc' = IF Running(y) THEN "prompt" ELSE y.st
          /\ call' = [op |-> "start", obj |-> NO_OBJECT, eof |-> eof]
  /\ UNCHANGED <<save, travel, tkey>>

\* one line read at the prompt and all that doCommand() and gameLoop() do
\* with it
\* eof: the line is the last of the input
Line(line, yes, named, eof) ==
  /\ pc = "prompt"
  /\ game.turns < MaxTurns
  /\ \E y \in {doCommand([GameCtx(game, save) EXCEPT !.eof = eof], line, yes, named)} :
       /\ game' = y.g
       /\ out' = y.out
       /\ pc' = IF Running(y) THEN "prompt" ELSE y.st
       /\ save' = y.disk
  /\ call' = [op |-> line.id, obj |-> line.obj, eof |-> eof]
  /\ UNCHANGED <<travel, tkey>>

Turn(line, yes, named) == Line(line, yes, named, FALSE)

Go == \E m \in MotionWords, yes \in BOOLEAN : Turn(MotionLine(m), yes, FALSE)
Take == \E o \in CarryWords : Turn(ActionLine("CARRY", o), FALSE, FALSE)
Discard == \E o \in DropWords : Turn(ActionLine("DROP", o), FALSE, FALSE)
Attack == \E o \in {NO_OBJECT, BIRD} : Turn(ActionLine("ATTACK", o), FALSE, FALSE)
Light == \E o \in {NO_OBJECT, LAMP} : Turn(ActionLine("LIGHT", o), FALSE, FALSE)
Suspend == \E yes \in BOOLEAN, named \in BOOLEAN : Turn(ActionLine("SAVE", NO_OBJECT), yes, named)
Resume == \E yes \in BOOLEAN, named \in BOOLEAN : Turn(ActionLine("RESUME", NO_OBJECT), yes, named)
Unknown == Turn(UnknownLine, FALSE, FALSE)

\* end of input at the prompt: doCommand() answers false and gameLoop()
\* terminates the session
Eof ==
  /\ pc = "prompt"
  /\ \E y \in {terminate(GameCtx(game, save), quitgame)} :
       /\ game' = y.g
       /\ out' = y.out
       /\ pc' = y.st
  /\ call' = [op |-> "EOF", obj |-> NO_OBJECT, eof |-> TRUE]
  /\ UNCHANGED <<save, travel, tkey>>

\* a command line that is the last line of the input: the question the
\* command asks, if it asks one, meets the end of the input
Hangup ==
  \E line \in {ActionLine("SAVE", NO_OBJECT), ActionLine("RESUME", NO_OBJECT)}
              \cup {MotionLine(m) : m \in MotionWords} :
     Line(line, FALSE, FALSE, TRUE)

Next ==
  \/ Start \/ Go \/ Take \/ Discard \/ Attack \/ Light \/ Suspend \/ Resume \/ Unknown
  \/ Eof \/ Hangup

Spec == Init /\ [][Next]_vars

\* ------------------------------------------------------------------------
\* Claims on the game
\* ------------------------------------------------------------------------
\* id (an object id or the second id of a two-placed object) is on the
\* chain that starts at i
RECURSIVE OnChain(_, _, _, _)
OnChain(g, i, id, fuel) ==
  IF i = 0 \/ fuel = 0 THEN FALSE
  ELSE IF i = id THEN TRUE
  ELSE OnChain(g, g.link[i], id, fuel - 1)

ChainsOf(g, id) ==
  {l \in 1..NLOCATIONS : OnChain(g, g.locs[l].atloc, id, ScanFuel)}

Linked(g, obj) ==
  /\ Cardinality(ChainsOf(g, obj)) = 1
  /\ g.objects[obj].place # CARRIED
Held(g, obj) ==
  /\ ChainsOf(g, obj) = {}
  /\ g.objects[obj].place = CARRIED
Nowhere(g, obj) ==
  /\ ChainsOf(g, obj) = {}
  /\ g.objects[obj].place = LOC_NOWHERE

\* C1 as stated: at every prompt every object is either on the chain of
\* exactly one location or carried.
C1_AsStated ==
  pc = "prompt" => \A obj \in 1..NOBJECTS : Linked(game, obj) \/ Held(game, obj)

\* C1, amended: at every prompt every object is in exactly one of three
\* conditions: on the chain of exactly one location, carried, or nowhere
\* (its place is LOC_NOWHERE and it is on no chain).
C1_Placement ==
  pc = "prompt" =>
    \A obj \in 1..NOBJECTS :
      /\ Linked(game, obj) \/ Held(game, obj) \/ Nowhere(game, obj)
      /\ Linked(game, obj) => game.objects[obj].place # LOC_NOWHERE

\* the lamp and the bottle were taken and the lamp put down again: the lamp
\* heads the chain of the building, the bottle and its water are carried,
\* the oil is nowhere
C1_Witness ==
  /\ pc = "prompt"
  /\ call = [op |-> "DROP", obj |-> LAMP, eof |-> FALSE]
  /\ game.locs[LOC_BUILDING].atloc = LAMP
  /\ Held(game, BOTTLE)
  /\ Held(game, WATER)
  /\ Nowhere(game, OIL)

\* C4: at every prompt restore() accepts the file savefile() makes of the
\* game, prints nothing, and leaves a running game equal to the saved one
\* in every field.
C4_RoundTrip ==
  pc = "prompt" =>
    LET y == restore(Ctx(createGameState), savefile(game, SAVE_VERSION))
    IN Running(y) /\ y.out = <<>> /\ y.g = game

\* ------------------------------------------------------------------------
\* Specification SpecObj: carry() and drop() applied one after the other
\* ------------------------------------------------------------------------
\* the calls of a run the model follows
MaxOps == 3

\* where things are carried from and dropped
ObjLocs == {LOC_START, LOC_BUILDING, LOC_DEBRIS}

\* the world after initialise(), the bird out of the cage or in it
InitObj ==
  /\ travel = WorldTravel
  /\ tkey = WorldTkey
  /\ \E caged \in BOOLEAN :
       game = [initialise(createGameState, 0) EXCEPT
                 !.loc = LOC_BUILDING, !.newloc = LOC_BUILDING,
                 !.objects[BIRD].prop = IF caged THEN BIRD_CAGED ELSE BIRD_UNCAGED]
  /\ save = NoSave
  /\ out = <<>>
  /\ pc = "prompt"
  /\ call = [op |-> "none", object |-> NO_OBJECT, where |-> LOC_NOWHERE, n |-> 0]

\* carry(object, where): of an object wherever it is, from any place; from
\* a place whose chain the object is not on, the scan never ends
Carry(object, where) ==
  /\ pc = "prompt"
  /\ call.n < MaxOps
  /\ \E y \in {carry(Ctx(game), object, where)} :
       /\ game' = y.g
       /\ out' = y.out
       /\ pc' = IF Running(y) THEN "prompt" ELSE y.st
  /\ call' = [op |-> "carry", object |-> object, where |-> where, n |-> call.n + 1]
  /\ UNCHANGED <<travel, tkey, save>>

\* drop(object, where): of an object that is carried or nowhere, as the
\* callers have it
Drop(object, where) ==
  /\ pc = "prompt"
  /\ call.n < MaxOps
  /\ game.objects[object].place \in {CARRIED, LOC_NOWHERE}
  /\ \E y \in {drop(Ctx(game), object, where)} :
       /\ game' = y.g
       /\ out' = y.out
       /\ pc' = IF Running(y) THEN "prompt" ELSE y.st
  /\ call' = [op |-> "drop", object |-> object, where |-> where, n |-> call.n + 1]
  /\ UNCHANGED <<travel, tkey, save>>

NextObj ==
  \/ \E object \in 1..NOBJECTS, where \in ObjLocs : Carry(object, where)
  \/ \E object \in 1..NOBJECTS, where \in ObjLocs : Drop(object, where)

SpecObj == InitObj /\ [][NextObj]_vars

\* C2: carry() of the caged bird leaves holdng as it is; carry() of any
\* other object not yet carried raises holdng by exactly 1; drop() of such
\* an object that is carried lowers holdng by exactly 1; carry() of an
\* object already carried changes neither holdng nor any chain.
C2_HeldCount ==
  [][ /\ call'.op = "carry" =>
           IF TOTING(game, call'.object)
           THEN /\ game'.holdng = game.holdng
                /\ game'.link = game.link
                /\ game'.locs = game.locs
           ELSE IF call'.object = BIRD
           THEN game.objects[BIRD].prop = BIRD_CAGED => game'.holdng = game.holdng
           ELSE game'.holdng = game.holdng + 1
      /\ (call'.op = "drop" /\ TOTING(game, call'.object) /\ call'.object # BIRD) =>
           game'.holdng = game.holdng - 1
    ]_vars

\* the cage and then the caged bird were carried off the floor of the
\* building: two things are carried and one is counted
C2_Witness ==
  /\ call = [op |-> "carry", object |-> BIRD, where |-> LOC_BUILDING, n |-> 2]
  /\ pc = "prompt"
  /\ game.objects[BIRD].prop = BIRD_CAGED
  /\ TOTING(game, BIRD)
  /\ TOTING(game, CAGE)
  /\ game.holdng = 1

\* ------------------------------------------------------------------------
\* Specification SpecDwarf: the player walks a deep cave, and dwarfmove()
\* follows every arrival
\* ------------------------------------------------------------------------
\* the arrivals of a run the model follows
MaxMoves == 6

\* A cave of four deep rooms below the debris room.  The pirate does not
\* enter the maze end; no dwarf takes the way from the nugget room to the
\* dead end.
DwarfTravel ==
  <<Rule("XYZZY", cond_goto, 0, 0, dest_goto, LOC_BUILDING, FALSE),
    Rule("DOWN", cond_goto, 0, 0, dest_goto, LOC_Y2, TRUE),
    Rule("UP", cond_goto, 0, 0, dest_goto, LOC_DEBRIS, FALSE),
    Rule("PLUGH", cond_goto, 0, 0, dest_speak, 7, FALSE),
    Rule("EAST", cond_goto, 0, 0, dest_goto, LOC_NUGGET, FALSE),
    Rule("WEST", cond_goto, 0, 0, dest_goto, LOC_DEADEND13, TRUE),
    Rule("WEST", cond_goto, 0, 0, dest_goto, LOC_Y2, FALSE),
    [Rule("EAST", cond_goto, 0, 0, dest_goto, LOC_DEADEND13, TRUE) EXCEPT !.nodwarves = TRUE],
    Rule("EAST", cond_goto, 0, 0, dest_goto, LOC_Y2, FALSE),
    Rule("WEST", cond_goto, 0, 0, dest_goto, LOC_NUGGET, FALSE),
    Rule("NORTH", cond_goto, 0, 0, dest_goto, LOC_MAZEEND12, TRUE),
    Rule("SOUTH", cond_goto, 0, 0, dest_goto, LOC_DEADEND13, TRUE)>>

DwarfTable == [i \in 0..Len(DwarfTravel) |-> IF i = 0 THEN DummyRule ELSE DwarfTravel[i]]

DwarfTkey ==
  [l \in 0..NLOCATIONS |->
     CASE l = LOC_DEBRIS -> 1
       [] l = LOC_Y2 -> 3
       [] l = LOC_NUGGET -> 7
       [] l = LOC_DEADEND13 -> 9
       [] l = LOC_MAZEEND12 -> 12
       [] OTHER -> 0]

\* states of the generator the draws of dwarfmove() start from
LcgValues == {0, 262144, 524288, 786432, 1000000, 1040000}

\* The player stands in the debris room with the lamp lit, with or without
\* the ruby in hand (found, and counted off the tally).
DwarfStates ==
  { LET y1 == carry(Ctx([initialise(createGameState, 0) EXCEPT
                           !.lcgX = x, !.loc = LOC_DEBRIS, !.newloc = LOC_DEBRIS,
                           !.oldloc = LOC_BUILDING, !.oldlc2 = LOC_BUILDING]),
                    LAMP, LOC_BUILDING)
        y2 == SetG(y1, [y1.g EXCEPT !.objects[LAMP].prop = LAMP_BRIGHT])
        y3 == IF ruby
              THEN SetG(carry(y2, RUBY, LOC_DEBRIS),
                        [carry(y2, RUBY, LOC_DEBRIS).g EXCEPT
                           !.objects[RUBY].prop = STATE_FOUND, !.tally = @ - 1])
              ELSE y2
    IN y3.g : x \in LcgValues, ruby \in BOOLEAN }

NoDwarfCall == [op |-> "none", ret |-> TRUE, n |-> 0, ran |-> 0]

InitDwarf ==
  /\ travel = DwarfTable
  /\ tkey = DwarfTkey
  /\ game \in DwarfStates
  /\ save = NoSave
  /\ out = <<>>
  /\ pc = "prompt"
  /\ call = NoDwarfCall

\* where the rules of the room lead, and the room itself
Neighbours(l) ==
  {l} \cup {travel[k].destval : k \in {k \in 1..(Cardinality(DOMAIN travel) - 1) :
                                         /\ travel[k].desttype = dest_goto
                                         /\ tkey[l] # 0 /\ k >= tkey[l]
                                         /\ \A m \in tkey[l]..(k - 1) : ~travel[m].stop}}

\* the head of doMove(): the player goes to a room next to this one, or
\* stays, unless a dwarf is in the way
Arrive(to) ==
  /\ pc = "prompt"
  /\ call.n < MaxMoves
  /\ to \in Neighbours(game.loc)
  /\ \E y \in {arrive(dwarfBlock(exitClosed(Ctx([game EXCEPT !.newloc = to]))))} :
       /\ game' = y.g
       /\ out' = y.out
  /\ pc' = "moved"
  /\ call' = [call EXCEPT !.op = "arrive", !.n = @ + 1]
  /\ UNCHANGED <<travel, tkey, save>>

\* dwarfmove(), as doMove() calls it after the arrival
DwarfMove ==
  /\ pc = "moved"
  /\ \E r \in {dwarfmove(Ctx(game))} :
       /\ game' = r.y.g
       /\ out' = r.y.out
       /\ pc' = IF r.ret THEN "prompt" ELSE "killed"
       /\ call' = [call EXCEPT !.op = "dwarfmove", !.ret = r.ret,
                               !.ran = IF Message("DWARF_RAN", <<>>) \in
                                            {r.y.out[k] : k \in 1..Len(r.y.out)}
                                       THEN @ + 1 ELSE @]
  /\ UNCHANGED <<travel, tkey, save>>

NextDwarf == (\E to \in 1..NLOCATIONS : Arrive(to)) \/ DwarfMove

SpecDwarf == InitDwarf /\ [][NextDwarf]_vars


\* ------------------------------------------------------------------------
\* Properties of dwarfmove()
\* ------------------------------------------------------------------------
\* the step is a call of dwarfmove()
DwarfCall == pc = "moved" /\ pc' # "moved"
Printed(m) == \E k \in 1..Len(out) : out[k].msg = m
PrintedNext(m) == \E k \in 1..Len(out') : out'[k].msg = m

\* C11: with dflag 0 on entry dwarfmove() answers true, prints nothing and
\* changes nothing of the game (no dwarf, no object, no chain, not the
\* place of the player) but dflag, and dflag leaves 0 only when the player
\* is in a deep room.
C11_Dormant ==
  [][(DwarfCall /\ game.dflag = 0)
       => /\ call'.ret
          /\ out' = <<>>
          /\ [game' EXCEPT !.dflag = 0] = game
          /\ game'.dflag # 0 => INDEEP(game.loc)]_vars

\* the first arrival, at Y2, has woken the dwarves
C11_Witness ==
  /\ call.op = "dwarfmove"
  /\ call.n = 1
  /\ game.loc = LOC_Y2
  /\ game.dflag = 1
  /\ out = <<>>

\* the dwarves 1..5 a call takes out of the game
Deactivated == {i \in 1..(NDWARVES - 1) : game.dwarves[i].loc # 0 /\ game'.dwarves[i].loc = 0}

Attackers ==
  {i \in 1..(NDWARVES - 1) : /\ game'.dwarves[i].seen # 0
                              /\ game'.dwarves[i].loc = game'.loc
                              /\ game'.dwarves[i].oldloc = game'.dwarves[i].loc}
\* the number of attackers the call has told the player of
KnivesThrown ==
  IF \E k \in 1..Len(out') : out'[k].msg = "THROWN_KNIVES"
  THEN (CHOOSE m \in {out'[k] : k \in 1..Len(out')} : m.msg = "THROWN_KNIVES").args[1]
  ELSE IF PrintedNext("KNIFE_THROWN") THEN 1 ELSE 0

\* C13: from dflag 2 on, the dwarves dwarfmove() counts as attackers are
\* dwarves 1..5 that after their move are seen, are where the player is and
\* have not moved; dwarfmove() answers false only in a call with at least
\* one such attacker.
C13_Attackers ==
  [][(DwarfCall /\ game.dflag >= 2)
       => /\ KnivesThrown <= Cardinality(Attackers)
          /\ KnivesThrown > 0 => KnivesThrown = Cardinality(Attackers)
          /\ ~call'.ret => (Attackers # {} /\ KnivesThrown >= 1)]_vars

\* a knife of a dwarf that stayed where the player is has killed the player
C13_Witness ==
  /\ pc = "killed"
  /\ ~call.ret
  /\ game.dflag = 3
  /\ Printed("GETS_YOU") \/ Printed("ONE_HIT") \/ Printed("MULTIPLE_HITS")
  /\ \E i \in 1..(NDWARVES - 1) :
       /\ game.dwarves[i].seen = 1
       /\ game.dwarves[i].loc = game.loc
       /\ game.dwarves[i].oldloc = game.loc

\* ------------------------------------------------------------------------
\* Claims on the end of the input
\* ------------------------------------------------------------------------
\* the report of terminate() for game g ended with disposition mode is in o
ScoreReported(o, g, mode) ==
  \E k \in 1..Len(o) :
     o[k] = Message("TOTAL_SCORE", <<points(g, mode), mxscor, g.turns, g.turns>>)

\* the questions yesOrNo() is asked in the model
Questions == {"WELCOME_YOU", "obituaries.query", "THIS_ACCEPTABLE"}
Asked(o) == \E k \in 1..Len(o) : o[k].msg \in Questions

\* C14: when the input ends at the command prompt the session ends through
\* terminate() with disposition quitgame: the score of the game as it stands
\* is reported with the maximum and the turns, the game is not changed, and
\* the session ends with exit code 0, not on an error path.
C14_EofScored ==
  [][(pc = "prompt" /\ call'.op = "EOF")
       => /\ pc' = "exit"
          /\ game' = game
          /\ ScoreReported(out', game, quitgame)
          /\ \E k \in 1..Len(out') :
                out'[k].msg \in {"NEXT_HIGHER", "NO_HIGHER", "OFF_SCALE"}]_vars

\* the input ended at the prompt after two commands of a novice
C14_Witness ==
  /\ call.op = "EOF"
  /\ pc = "exit"
  /\ game.turns = 2
  /\ game.novice
  /\ ScoreReported(out, game, quitgame)

\* C15: when the input ends inside a question (the welcome, a confirmation,
\* the question after a death), the session ends as it does at the command
\* prompt: with the report of the score for disposition quitgame.
C15_EofEverywhere ==
  [][(call'.eof /\ call'.op # "EOF" /\ Asked(out'))
       => /\ pc' = "exit"
          /\ ScoreReported(out', game', quitgame)]_vars

\* ------------------------------------------------------------------------
\* Specification SpecLine: lines of input read at the prompt of a game that
\* is near a turn threshold or near the closing of the cave
\* ------------------------------------------------------------------------
\* the lines of input the model follows
MaxLines == 3

LineTravel ==
  <<Rule("EAST", cond_goto, 0, 0, dest_goto, LOC_BUILDING, TRUE),
    Rule("WEST", cond_goto, 0, 0, dest_goto, LOC_START, TRUE),
    Rule("EAST", cond_goto, 0, 0, dest_goto, LOC_NUGGET, TRUE),
    Rule("WEST", cond_goto, 0, 0, dest_goto, LOC_Y2, TRUE),
    Rule("SW", cond_goto, 0, 0, dest_goto, LOC_SW, TRUE),
    Rule("NE", cond_goto, 0, 0, dest_goto, LOC_NE, TRUE)>>

LineTable == [i \in 0..Len(LineTravel) |-> IF i = 0 THEN DummyRule ELSE LineTravel[i]]

LineTkey ==
  [l \in 0..NLOCATIONS |->
     CASE l = LOC_START -> 1
       [] l = LOC_BUILDING -> 2
       [] l = LOC_Y2 -> 3
       [] l = LOC_NUGGET -> 4
       [] l = LOC_NE -> 5
       [] l = LOC_SW -> 6
       [] OTHER -> 0]

\* the game at its first prompt, and after so many lines of unknown words
started ==
  moveAndDescribe(welcome(GameCtx(initialise(createGameState, 0), NoSave), FALSE),
                  FALSE, MoveFuel).g
Outside == {[g EXCEPT !.turns = t] : g \in {started}, t \in {0, 349, 350}}

\* the five treasures lie in the building, found
found(y, i) ==
  SetG(y, [OBJECT_SET_FOUND(y.g, i) EXCEPT !.objects[i].fixed = IS_FREE, !.tally = @ - 1])

RECURSIVE hoard(_, _)
hoard(y, i) ==
  IF i > NOBJECTS THEN y
  ELSE IF WorldObjects[i].isTreasure
  THEN hoard(found(move(y, i, LOC_BUILDING), i), i + 1)
  ELSE hoard(y, i + 1)

\* the player deep in the cave with the lamp lit, the dwarves about, every
\* treasure found; laden, the pillow and the axe are carried as well
lit(y) == SetG(y, [y.g EXCEPT !.objects[LAMP].prop = LAMP_BRIGHT])
lampLit(y) == lit(carry(y, LAMP, LOC_BUILDING))
axeTaken(y) == SetG(y, [y.g EXCEPT !.objects[AXE].place = CARRIED, !.holdng = @ + 1])
deepGame(g, laden, turns, clock1) ==
  [(IF laden THEN axeTaken(carry(lampLit(hoard(Ctx(g), 1)), PILLOW, LOC_NUGGET))
    ELSE lampLit(hoard(Ctx(g), 1))).g
     EXCEPT !.loc = LOC_NUGGET, !.newloc = LOC_NUGGET, !.oldloc = LOC_Y2, !.oldlc2 = LOC_Y2,
            !.dflag = 2, !.turns = turns, !.clock1 = clock1, !.wzdark = FALSE,
            !.locs[LOC_NUGGET].abbrev = 1]
Deep ==
  {deepGame(g, laden, turns, clock1) :
     g \in {started}, laden \in BOOLEAN, turns \in {340, 349}, clock1 \in {1, 2}}

\* the same game after the first warning, the second clock near its end
Closing ==
  {[caveClosing(Ctx(g)).g EXCEPT !.clock2 = clock2, !.panic = TRUE] :
     g \in {deepGame(s, laden, 340, 1) : s \in {started}, laden \in BOOLEAN}, clock2 \in {1, 2}}

LineStates == Outside \cup Deep \cup Closing

\* the words are those of the reduced vocabulary; FROB and THE are in no table
RawLines ==
  {<<>>, <<" ">>, <<"FROB">>, <<"LOOK">>, <<"WEST">>,
   <<"CARRY", " ", "THE", " ", "LAMP">>, <<"SEED", " ", "7">>, <<"ENTER", " ", "STREAM">>}

NoLineCall == [op |-> "none", raw |-> <<>>, n |-> 0, yes |-> FALSE]

InitLine ==
  /\ travel = LineTable
  /\ tkey = LineTkey
  /\ game \in LineStates
  /\ save = NoSave
  /\ out = <<>>
  /\ pc = "prompt"
  /\ call = NoLineCall

\* one line of the input, from getCommandInput() to the next read
\* one line of the input, one of lines, is read at the prompt; should the
\* command ask a question, the answer is one of answers
\* names tells whether a file name is given when one is asked for
ReadNamed(lines, max, answers, names) ==
  /\ pc = "prompt"
  /\ call.n < max
  /\ \E raw \in lines, yes \in answers, named \in names :
       /\ \E y \in {readLine(getCommandInput(GameCtx(game, save), raw), yes, named)} :
            /\ game' = y.g
            /\ out' = y.out
            /\ pc' = IF Running(y) THEN "prompt" ELSE y.st
            /\ save' = y.disk
       /\ call' = [op |-> "line", raw |-> raw, n |-> call.n + 1, yes |-> yes]
  /\ UNCHANGED <<travel, tkey>>

Read(lines, max, answers) == ReadNamed(lines, max, answers, {FALSE})

ReadLine == Read(RawLines, MaxLines, {FALSE})

\* the end of the input at the prompt
EndOfInput ==
  /\ pc = "prompt"
  /\ \E y \in {terminate(GameCtx(game, save), quitgame)} :
       /\ game' = y.g
       /\ out' = y.out
       /\ pc' = y.st
  /\ call' = [op |-> "EOF", raw |-> <<>>, n |-> call.n, yes |-> FALSE]
  /\ UNCHANGED <<save, travel, tkey>>

NextLine == ReadLine \/ EndOfInput

SpecLine == InitLine /\ [][NextLine]_vars


(***************************************************************************)
(* Claims on the lines read at the prompt                                  *)
(***************************************************************************)

\* the line just read holds no word, or more than two
Rejected(raw) == wordCount(raw) = 0 \/ wordCount(raw) > 2

\* C16: a line of more than two words is answered with TWO_WORDS and the
\* prompt repeated; such a line, like a blank line, is not tokenized, counts
\* no turn, leaves the foobar tracker alone and changes no game state:
\* getCommandInput() returns true only for a line that is not blank
C16_Rejected ==
  [][(call'.op = "line" /\ Rejected(call'.raw))
       => /\ game' = game
          /\ pc' = "prompt"
          /\ out' = IF wordCount(call'.raw) > 2 THEN <<Message("TWO_WORDS", <<>>)>> ELSE <<>>]_vars


\* the first word of the line is found in no vocabulary table
UnknownWord(raw) == wordCount(raw) \in 1..2 /\ tokenize(raw)[1].type = "NONE"

Said(o, m) == \E k \in 1..Len(o) : o[k].msg = m

\* the command is answered where the player stands: nothing is moved
Recovered(g, h, o) ==
  /\ Said(o, "DONT_KNOW")
  /\ h.oldobj = NO_OBJECT
  /\ h.loc = g.loc /\ h.oldloc = g.oldloc
  /\ h.dwarves = g.dwarves
  /\ \A i \in 1..NOBJECTS :
       h.objects[i].place = g.objects[i].place /\ h.objects[i].fixed = g.objects[i].fixed

\* C17: a command whose first word is in no vocabulary table never ends the
\* session, the engine prompts again; and on a turn on which the cave
\* neither starts closing nor closes, DONT_KNOW is printed, the command is
\* reset, no object is moved and neither the player nor the dwarves move
C17_Unknown ==
  [][(call'.op = "line" /\ UnknownWord(call'.raw))
       => /\ pc' = "prompt"
          /\ (game'.closng = game.closng /\ game'.closed = game.closed)
               => Recovered(game, game', out')]_vars

C17_Witness ==
  /\ call.op = "line" /\ call.raw = <<"FROB">> /\ pc = "prompt"
  /\ Said(out, "DONT_KNOW")
  /\ game.dflag = 2 /\ ~game.closng /\ game.turns = 341
  /\ \E i \in 1..NDWARVES : game.dwarves[i].loc # LOC_NOWHERE

\* C17 as stated: the same on every turn
C17_UnknownAlways ==
  [][(call'.op = "line" /\ UnknownWord(call'.raw))
       => /\ pc' = "prompt"
          /\ Recovered(game, game', out')]_vars


(***************************************************************************)
(* Claims on closecheck()                                                  *)
(***************************************************************************)

\* the point losses of the thresholds below threshold i
RECURSIVE lossBelow(_, _)
lossBelow(i, j) ==
  IF j > NTHRESHOLDS THEN 0
  ELSE (IF turnThresholds[j].threshold < turnThresholds[i].threshold
        THEN turnThresholds[j].pointLoss ELSE 0) + lossBelow(i, j + 1)

\* C18: the point loss of each turn threshold is added to trnluz exactly
\* once: on the turn on which the turn counter first passes the threshold,
\* and never again afterwards
C18_OncePerThreshold ==
  [][/\ \A i \in 1..NTHRESHOLDS :
          (game.turns <= turnThresholds[i].threshold /\ game'.turns > turnThresholds[i].threshold)
            => game'.trnluz = game.trnluz + turnThresholds[i].pointLoss
     /\ game'.trnluz # game.trnluz
          => \E i \in 1..NTHRESHOLDS :
               /\ game.turns = turnThresholds[i].threshold
               /\ game.trnluz = lossBelow(i, 1)
               /\ game'.trnluz = game.trnluz + turnThresholds[i].pointLoss]_vars


StagedNE == {BOTTLE, PLANT, OYSTER, LAMP, ROD, DWARF, MIRROR}
StagedSW == {SNAKE, BIRD, CAGE, ROD2, PILLOW}
stagedState(i) ==
  CASE i = BOTTLE -> EMPTY_BOTTLE
    [] i = PLANT -> PLANT_THIRSTY
    [] i = LAMP -> LAMP_DARK
    [] i = SNAKE -> SNAKE_CHASED
    [] i = BIRD -> BIRD_CAGED
    [] OTHER -> STATE_FOUND

\* C20: in the step in which clock2 reaches 0, loc, oldloc and newloc are
\* LOC_NE, the objects of the endgame lie in LOC_NE and LOC_SW in stashed
\* state, nothing the player carried is left, no object is CARRIED, and
\* closed is true
C20_Closed ==
  [][(game.closng /\ game.clock2 = 1 /\ game'.clock2 # game.clock2)
       => /\ game'.loc = LOC_NE /\ game'.oldloc = LOC_NE /\ game'.newloc = LOC_NE
          /\ \A i \in StagedNE :
               /\ game'.objects[i].place = LOC_NE
               /\ game'.objects[i].prop = PROP_STASHIFY(stagedState(i))
          /\ \A i \in StagedSW :
               /\ game'.objects[i].place = LOC_SW
               /\ game'.objects[i].prop = PROP_STASHIFY(stagedState(i))
          /\ game'.objects[GRATE].place = LOC_SW /\ game'.objects[SIGN].place = LOC_SW
          /\ \A i \in 1..NOBJECTS :
               /\ ~TOTING(game', i)
               /\ (TOTING(game, i) /\ i \notin StagedNE \cup StagedSW)
                    => game'.objects[i].place = LOC_NOWHERE
          /\ game'.closed]_vars

C20_Witness ==
  /\ call.op = "line" /\ Said(out, "CAVE_CLOSED")
  /\ game.closed /\ game.clock2 = 0 /\ game.loc = LOC_NE
  /\ game.objects[AXE].place = LOC_NOWHERE
  /\ game.objects[PILLOW].place = LOC_SW


(***************************************************************************)
(* The snake is fed                                                        *)
(***************************************************************************)
MaxFeeds == 3

\* the player at Y2, where the snake of the reduced table lies, lamp lit;
\* the bird is in the building, or in the cage in the player's hands, or
\* free at Y2
atSnake(y) ==
  SetG(y, [y.g EXCEPT !.loc = LOC_Y2, !.newloc = LOC_Y2, !.oldloc = LOC_NUGGET,
                      !.oldlc2 = LOC_NUGGET, !.wzdark = FALSE, !.locs[LOC_Y2].abbrev = 1])
caged(y) == SetG(y, [y.g EXCEPT !.objects[BIRD].prop = BIRD_CAGED])
birdInCage(y) == caged(carry(carry(y, CAGE, LOC_BUILDING), BIRD, LOC_BUILDING))
birdFree(y) == drop(carry(y, BIRD, LOC_BUILDING), BIRD, LOC_Y2)
SnakeStates ==
  UNION {{atSnake(lampLit(Ctx(g))).g, atSnake(birdInCage(lampLit(Ctx(g)))).g,
          atSnake(birdFree(lampLit(Ctx(g)))).g} : g \in {started}}

\* the cave has just closed: the line on which clock2 ran out has been read
ClosedStates ==
  {readLine(getCommandInput(GameCtx(g, NoSave), <<"LOOK">>), FALSE, FALSE).g :
     g \in {c \in Closing : c.clock2 = 1}}

FeedLines ==
  {<<"SW">>, <<"FEED", " ", "SNAKE">>, <<"FEED", " ", "BIRD">>, <<"FEED", " ", "BEAR">>,
   <<"FEED">>}

InitFeed ==
  /\ travel = LineTable
  /\ tkey = LineTkey
  /\ game \in SnakeStates \cup ClosedStates
  /\ save = NoSave
  /\ out = <<>>
  /\ pc = "prompt"
  /\ call = NoLineCall

ReadFeed == Read(FeedLines, MaxFeeds, {FALSE})

NextFeed == ReadFeed

SpecFeed == InitFeed /\ [][NextFeed]_vars

\* the line just read
Typed(raw) == call'.op = "line" /\ call'.raw = raw

\* C21: the snake is fed with the bird in sight.  In a cave that is not
\* closed the bird is destroyed (its place is LOC_NOWHERE) and BIRD_DEVOURED
\* is printed; in the closed cave the place and the state of the bird are
\* unchanged and NOTHING_EDIBLE is printed.  Either way the command is
\* cleared and the prompt comes back, the player where he was.
C21_FeedSnake ==
  [][(Typed(<<"FEED", " ", "SNAKE">>) /\ HERE(game, SNAKE) /\ HERE(game, BIRD))
       => /\ pc' = "prompt" /\ game'.loc = game.loc
          /\ ~game.closed
               => /\ game'.objects[BIRD].place = LOC_NOWHERE
                  /\ \A l \in 1..NLOCATIONS : ~OnChain(game', game'.locs[l].atloc, BIRD, ScanFuel)
                  /\ out' = <<Message("BIRD_DEVOURED", <<>>)>>
          /\ game.closed
               => /\ game'.objects[BIRD] = game.objects[BIRD]
                  /\ out' = <<Message("NOTHING_EDIBLE", <<>>)>>]_vars

C21_Witness ==
  /\ call.op = "line" /\ call.raw = <<"FEED", " ", "SNAKE">> /\ pc = "prompt"
  /\ game.closed /\ game.loc = LOC_SW
  /\ HERE(game, SNAKE) /\ HERE(game, BIRD)
  /\ out = <<Message("NOTHING_EDIBLE", <<>>)>>


(***************************************************************************)
(* The words of the giant                                                  *)
(***************************************************************************)
MaxWords == 5

standing(y, l) ==
  SetG(y, [y.g EXCEPT !.loc = l, !.newloc = l, !.oldloc = l, !.oldlc2 = l,
                      !.wzdark = FALSE, !.locs[l].abbrev = 1])
eggsFound(y) == SetG(y, firstSeen(y.g, EGGS))
eggsTaken(y) == carry(eggsFound(y), EGGS, LOC_GIANTROOM)
trollFed(y) == move(move(destroy(eggsTaken(y), EGGS), TROLL, LOC_NOWHERE), TROLL + NOBJECTS, IS_FREE)

\* the eggs seen: in their place, in the player's hands in that place, left
\* in the building or at Y2, or thrown to the troll; the player in the
\* giant room or at Y2
GiantStates ==
  UNION {{standing(eggsFound(y), LOC_GIANTROOM).g,
          standing(eggsTaken(y), LOC_GIANTROOM).g,
          standing(drop(eggsTaken(y), EGGS, LOC_BUILDING), LOC_GIANTROOM).g,
          standing(drop(eggsTaken(y), EGGS, LOC_Y2), LOC_Y2).g,
          standing(trollFed(y), LOC_Y2).g,
          standing(trollFed(y), LOC_GIANTROOM).g} : y \in {lampLit(Ctx(g)) : g \in {started}}}

GiantLines == {<<"FEE">>, <<"FIE">>, <<"FOE">>, <<"FOO">>, <<"FROB">>}

InitGiant ==
  /\ travel = LineTable
  /\ tkey = LineTkey
  /\ game \in GiantStates
  /\ save = NoSave
  /\ out = <<>>
  /\ pc = "prompt"
  /\ call = NoLineCall

SayWord == Read(GiantLines, MaxWords, {FALSE})

NextGiant == SayWord

SpecGiant == InitGiant /\ [][NextGiant]_vars

\* the word the tracker holds when the line is taken up: doCommand() keeps
\* one that was set by the line before, and drops any other
held(g) == IF g.foobar > WORD_EMPTY THEN g.foobar ELSE WORD_EMPTY

\* the word id is the next of the sequence
InTurn(g, id) ==
  \/ held(g) = WORD_EMPTY /\ id = FEE
  \/ held(g) = FEE /\ id = FIE
  \/ held(g) = FIE /\ id = FOE
  \/ held(g) = FOE /\ id = FOO

GiantWord(raw) == Len(raw) = 1 /\ raw[1] \in DOMAIN bigword

\* the eggs are where they belong, or in the hands of the player there
EggsHome(g) ==
  \/ g.objects[EGGS].place = WorldObjects[EGGS].plac
  \/ TOTING(g, EGGS) /\ g.loc = WorldObjects[EGGS].plac

Eggs(g) == <<g.objects[EGGS], g.objects[TROLL].prop>>

\* what is printed when the eggs go back to their place
EggsMessage(g) ==
  Message("look", <<EGGS, IF HERE(g, EGGS) THEN EGGS_VANISHED
                          ELSE IF g.loc = WorldObjects[EGGS].plac THEN EGGS_HERE
                          ELSE EGGS_DONE>>)

\* C22: FEE, FIE, FOE and FOO, each on the line after the other, are
\* answered OK_MAN three times and then send the eggs back to their place,
\* with the tracker foobar at 0 again, unless the eggs are in their place
\* already or in the player's hands there: then FOO is answered
\* NOTHING_HAPPENS.  A word of the giant out of its turn leaves the eggs
\* alone, sets foobar to 0 and is answered NOTHING_HAPPENS when no sequence
\* was under way, and WELL_POINTLESS or START_OVER when one was.  Any other
\* command leaves the eggs alone and ends the sequence: foobar is negated,
\* and is 0 after the command that follows.
C22_GiantWords ==
  [][call'.op = "line" =>
       /\ (GiantWord(call'.raw) /\ InTurn(game, bigword[call'.raw[1]]) /\ call'.raw # <<"FOO">>)
            => /\ game'.foobar = bigword[call'.raw[1]]
               /\ Eggs(game') = Eggs(game)
               /\ out' = <<Message("OK_MAN", <<>>)>>
       /\ (call'.raw = <<"FOO">> /\ InTurn(game, FOO))
            => /\ game'.foobar = WORD_EMPTY
               /\ EggsHome(game)
                    => Eggs(game') = Eggs(game) /\ out' = <<Message("NOTHING_HAPPENS", <<>>)>>
               /\ ~EggsHome(game)
                    => /\ game'.objects[EGGS].place = WorldObjects[EGGS].plac
                       /\ out' = <<EggsMessage(game)>>
       /\ (GiantWord(call'.raw) /\ ~InTurn(game, bigword[call'.raw[1]]))
            => /\ game'.foobar = WORD_EMPTY
               /\ Eggs(game') = Eggs(game)
               /\ out' = <<Message(IF held(game) = WORD_EMPTY THEN "NOTHING_HAPPENS"
                                   ELSE IF game.seenbigwords THEN "START_OVER"
                                   ELSE "WELL_POINTLESS", <<>>)>>
       /\ ~GiantWord(call'.raw)
            => /\ game'.foobar = (IF game.foobar > WORD_EMPTY THEN 0 - game.foobar ELSE WORD_EMPTY)
               /\ Eggs(game') = Eggs(game)]_vars

C22_Witness ==
  /\ call.op = "line" /\ call.raw = <<"FOO">> /\ call.n = 4 /\ game.turns = 4
  /\ game.loc = LOC_GIANTROOM /\ game.objects[EGGS].place = LOC_GIANTROOM
  /\ game.foobar = WORD_EMPTY
  /\ out = <<Message("look", <<EGGS, EGGS_HERE>>)>>

\* C22 as stated: in the room of the eggs the sequence always brings the
\* effect on the eggs; anything else sets the tracker back, leaves the eggs
\* alone and, for a word of the giant, is answered NOTHING_HAPPENS or OK_MAN
C22_AsStated ==
  [][call'.op = "line" =>
       /\ (call'.raw = <<"FOO">> /\ InTurn(game, FOO) /\ game.loc = WorldObjects[EGGS].plac)
            => /\ game'.foobar = WORD_EMPTY
               /\ game'.objects[EGGS].place = WorldObjects[EGGS].plac
               /\ out' = <<EggsMessage(game)>>
       /\ ~(GiantWord(call'.raw) /\ InTurn(game, bigword[call'.raw[1]]))
            => /\ held(game') = WORD_EMPTY
               /\ Eggs(game') = Eggs(game)
               /\ GiantWord(call'.raw)
                    => out' \in {<<Message("NOTHING_HAPPENS", <<>>)>>, <<Message("OK_MAN", <<>>)>>}]_vars


(***************************************************************************)
(* The random number generator                                             *)
(***************************************************************************)
MaxDraws == 3

\* seeds on both sides of zero and of the modulus
RngSeeds ==
  {0 - 3000001, 0 - 1048577, 0 - 1048576, 0 - 1048575, 0 - 1, 0, 1, 42, 1048575, 1048576,
   1048577, 2147483647}
Ranges == {1, 2, 26, 100, 1000}

InitRng ==
  /\ travel = LineTable
  /\ tkey = LineTkey
  /\ \E s \in RngSeeds :
       /\ game = setSeed(createGameState, s)
       /\ call = [op |-> "setSeed", seed |-> s, range |-> 0, ret |-> 0, n |-> 0]
  /\ save = NoSave
  /\ out = <<>>
  /\ pc = "prompt"

SetSeed ==
  /\ \E s \in RngSeeds :
       /\ game' = setSeed(game, s)
       /\ call' = [op |-> "setSeed", seed |-> s, range |-> 0, ret |-> 0, n |-> 0]
  /\ UNCHANGED <<travel, tkey, out, pc, save>>

Randrange ==
  /\ call.n < MaxDraws
  /\ \E range \in Ranges :
       /\ game' = getNextLcgValue(game)
       /\ call' = [op |-> "randrange", seed |-> call.seed, range |-> range,
                   ret |-> randrange(game, range), n |-> call.n + 1]
  /\ UNCHANGED <<travel, tkey, out, pc, save>>

NextRng == SetSeed \/ Randrange

SpecRng == InitRng /\ [][NextRng]_vars

\* C23: randrange(n) returns floor(n * x / LCG_M) for the state x held before
\* the call and leaves the state at (LCG_A * x + LCG_C) mod LCG_M; from
\* setSeed on, whatever the sign of the seed, the state is in 0..LCG_M - 1
\* and randrange(n), n >= 1, returns an integer in 0..n - 1
C23_Rng ==
  /\ [](game.lcgX \in 0..(LCG_M - 1))
  /\ [][call'.op = "randrange"
          => /\ call'.ret = (call'.range * game.lcgX) \div LCG_M
             /\ game'.lcgX = (LCG_A * game.lcgX + LCG_C) % LCG_M
             /\ call'.ret \in 0..(call'.range - 1)]_vars

C23_Witness ==
  /\ call.op = "randrange" /\ call.seed = 0 - 1048577 /\ call.n = MaxDraws
  /\ call.range = 1000 /\ call.ret > 0


(***************************************************************************)
(* The load of the player                                                  *)
(***************************************************************************)
MaxLoads == 3

\* the player has walked into the building
indoors(g) == [g EXCEPT !.loc = LOC_BUILDING, !.newloc = LOC_BUILDING, !.oldloc = LOC_START]

\* the bottle of water has been taken in the building, as vcarry() takes it
bottled(g) == liquidCarried(carry(Ctx(g), BOTTLE, LOC_BUILDING), BOTTLE).g

\* the cave is closing and the player carries the bottle
LoadedClosing ==
  {[caveClosing(Ctx(g)).g EXCEPT !.clock2 = clock2, !.panic = TRUE] :
     g \in {deepGame(bottled(s), laden, 340, 1) : s \in {started}, laden \in BOOLEAN},
     clock2 \in {1, 2}}

LoadStates == {indoors(g) : g \in {started}} \cup LoadedClosing

LoadLines ==
  {<<"LOOK">>, <<"FROB">>, <<"CARRY", " ", "BOTTLE">>, <<"DROP", " ", "BOTTLE">>,
   <<"CARRY", " ", "LAMP">>, <<"CARRY", " ", "WATER">>, <<"DROP", " ", "WATER">>}

InitLoad ==
  /\ travel = LineTable
  /\ tkey = LineTkey
  /\ game \in LoadStates
  /\ save = NoSave
  /\ out = <<>>
  /\ pc = "prompt"
  /\ call = NoLineCall

ReadLoad == Read(LoadLines, MaxLoads, {FALSE})

NextLoad == ReadLoad \/ EndOfInput

SpecLoad == InitLoad /\ [][NextLoad]_vars

\* the objects in hand that weigh: all but the bird, the water and the oil
Weighing(g) == {i \in 1..NOBJECTS : g.objects[i].place = CARRIED /\ i \notin {BIRD, WATER, OIL}}

\* C24: at every prompt holdng is the number of carried objects other than
\* the bird, the water and the oil; it is never negative and never above
\* INVLIMIT
C24_Holdng ==
  pc = "prompt" =>
    /\ game.holdng = Cardinality(Weighing(game))
    /\ game.holdng \in 0..INVLIMIT


(***************************************************************************)
(* The tally of the treasures                                              *)
(***************************************************************************)
MaxTakes == 3

\* the player stands among the debris: in the dark, the lamp left in the
\* building, or with the lamp lit and the room described
inDebris(g) ==
  [g EXCEPT !.loc = LOC_DEBRIS, !.newloc = LOC_DEBRIS, !.oldloc = LOC_START,
            !.oldlc2 = LOC_START]
DebrisDark == {[inDebris(g) EXCEPT !.wzdark = TRUE] : g \in {started}}
DebrisLit ==
  {readLine(getCommandInput(GameCtx(inDebris(lampLit(Ctx(g)).g), NoSave), <<"LOOK">>),
            FALSE, FALSE).g : g \in {started}}

TallyLines ==
  {<<"LOOK">>, <<"FROB">>, <<"CARRY">>, <<"CARRY", " ", "RUBY">>, <<"DROP", " ", "RUBY">>,
   <<"CARRY", " ", "LAMP">>}

\* the way up from the debris is added to the table of the lines
TallyTravel == LineTravel \o <<Rule("UP", cond_goto, 0, 0, dest_goto, LOC_START, TRUE)>>
TallyTable == [i \in 0..Len(TallyTravel) |-> IF i = 0 THEN DummyRule ELSE TallyTravel[i]]
TallyTkey == [LineTkey EXCEPT ![LOC_DEBRIS] = Len(TallyTravel)]

InitTally ==
  /\ travel = TallyTable
  /\ tkey = TallyTkey
  /\ game \in DebrisDark \cup DebrisLit
  /\ save = NoSave
  /\ out = <<>>
  /\ pc = "prompt"
  /\ call = NoLineCall

ReadTally == Read(TallyLines, MaxTakes, {FALSE})

NextTally == ReadTally \/ EndOfInput

SpecTally == InitTally /\ [][NextTally]_vars

\* C25: at every prompt tally is the number of treasures whose prop is
\* STATE_NOTFOUND, the number isValid() recomputes, so that the state would
\* pass the tally check of a restore
C25_Tally ==
  pc = "prompt" =>
    /\ game.tally = Cardinality(NotFoundTreasures(game))
    /\ game.tally = tempTally(game)


(***************************************************************************)
(* The bird and its cage                                                   *)
(***************************************************************************)
MaxBirds == 3

\* the player is in the building, where the cage and the bird are: nothing
\* taken yet, or the bird in the cage in the player's hands
BirdStates == UNION {{indoors(g), indoors(birdInCage(Ctx(g)).g)} : g \in {started}}

BirdLines ==
  {<<"LOOK">>, <<"CARRY", " ", "CAGE">>, <<"CARRY", " ", "BIRD">>, <<"DROP", " ", "CAGE">>,
   <<"DROP", " ", "BIRD">>, <<"ATTACK", " ", "BIRD">>}

InitBird ==
  /\ travel = LineTable
  /\ tkey = LineTkey
  /\ game \in BirdStates
  /\ save = NoSave
  /\ out = <<>>
  /\ pc = "prompt"
  /\ call = NoLineCall

ReadBird == Read(BirdLines, MaxBirds, {FALSE})

NextBird == ReadBird \/ EndOfInput

SpecBird == InitBird /\ [][NextBird]_vars

\* C26: every carry() a command leads to finds its object on the chain of
\* the place it is given, so that no line of input leaves the scan of
\* carry() running past the end of a chain without end
C26_CarryTerminates == pc # "hung"


(***************************************************************************)
(* The endgame: the two clocks, the way out, the saved game                *)
(***************************************************************************)
MaxEnds == 3

\* Y2 and the building are joined by the magic word
EndTravel ==
  <<Rule("EAST", cond_goto, 0, 0, dest_goto, LOC_BUILDING, TRUE),
    Rule("WEST", cond_goto, 0, 0, dest_goto, LOC_START, FALSE),
    Rule("PLUGH", cond_goto, 0, 0, dest_goto, LOC_Y2, TRUE),
    Rule("EAST", cond_goto, 0, 0, dest_goto, LOC_NUGGET, FALSE),
    Rule("PLUGH", cond_goto, 0, 0, dest_goto, LOC_BUILDING, TRUE),
    Rule("WEST", cond_goto, 0, 0, dest_goto, LOC_Y2, TRUE),
    Rule("SW", cond_goto, 0, 0, dest_goto, LOC_SW, TRUE),
    Rule("NE", cond_goto, 0, 0, dest_goto, LOC_NE, TRUE),
    Rule("DOWN", cond_goto, 0, 0, dest_goto, LOC_Y2, TRUE)>>

EndTable == [i \in 0..Len(EndTravel) |-> IF i = 0 THEN DummyRule ELSE EndTravel[i]]

EndTkey ==
  [l \in 0..NLOCATIONS |->
     CASE l = LOC_START -> 1
       [] l = LOC_BUILDING -> 2
       [] l = LOC_Y2 -> 4
       [] l = LOC_NUGGET -> 6
       [] l = LOC_NE -> 7
       [] l = LOC_SW -> 8
       [] l = LOC_DEBRIS -> 9
       [] OTHER -> 0]

\* the player deep in the cave with every treasure found, before and after
\* the first warning; after it, panicked or not
\* the eggs have not been seen yet: they lie in the giant room
eggsLeft(g) ==
  [move(Ctx(g), EGGS, LOC_GIANTROOM).g EXCEPT !.objects[EGGS].prop = STATE_NOTFOUND,
                                              !.tally = 1]
EndDeep ==
  UNION {{deepGame(g, TRUE, 340, 1), deepGame(g, TRUE, 340, 2), deepGame(g, FALSE, 340, 1),
          deepGame(g, FALSE, 340, 2), eggsLeft(deepGame(g, FALSE, 340, 2))} : g \in {started}}
EndClosing ==
  {[caveClosing(Ctx(g)).g EXCEPT !.clock2 = clock2, !.panic = panic] :
     g \in {deepGame(s, FALSE, 340, 1) : s \in {started}}, clock2 \in {1, 2, 40},
     panic \in BOOLEAN}

\* the cave is closing and the player has come back to the grate, below it,
\* with the keys
atGrate(g) ==
  [carry(Ctx(g), KEYS, LOC_BUILDING).g EXCEPT
     !.loc = LOC_DEBRIS, !.newloc = LOC_DEBRIS, !.oldloc = LOC_Y2, !.oldlc2 = LOC_Y2,
     !.locs[LOC_DEBRIS].abbrev = 1]
EndGrate == {atGrate(g) : g \in {c \in EndClosing : c.clock2 = 40}}

\* the file on the disk: none, a game saved deep in the cave, or a game
\* saved after the first warning
EndDisks ==
  {NoSave}
  \cup {savefile(g, SAVE_VERSION) :
          g \in {d \in EndDeep : d.clock1 = 2 /\ d.holdng = 1 /\ d.tally = 0}}
  \cup {savefile(g, SAVE_VERSION) : g \in {c \in EndClosing : c.clock2 = 2 /\ ~c.panic}}

EndLines ==
  {<<"LOOK">>, <<"FROB">>, <<"WEST">>, <<"EAST">>, <<"DOWN">>, <<"PLUGH">>, <<"RESUME">>,
   <<"UNLOCK", " ", "GRATE">>, <<"LOCK">>}

InitEnd ==
  /\ travel = EndTable
  /\ tkey = EndTkey
  /\ game \in EndDeep \cup EndClosing \cup EndGrate
  /\ save \in EndDisks
  /\ out = <<>>
  /\ pc = "prompt"
  /\ call = NoLineCall

ReadEnd == ReadNamed(EndLines, MaxEnds, BOOLEAN, {TRUE})

NextEnd == ReadEnd \/ EndOfInput

SpecEnd == InitEnd /\ [][NextEnd]_vars

\* the flags and the second clock from one prompt to the next
Forward ==
  /\ game.closng => game'.closng
  /\ game.closed => game'.closed
  /\ game'.clock2 < game.clock2 => game.closng
  /\ Said(out', "CAVE_CLOSED") => ~game.closed /\ game'.closed

\* the line read is a resume that was confirmed
Resumed == call'.raw = <<"RESUME">> /\ call'.yes

\* C27: closed is true only if closng is; on every line but a resume that
\* is confirmed neither flag returns to false, clock2 goes down only once
\* closng is true, and the cave closes at most once
C27_Forward ==
  /\ [](game.closed => game.closng)
  /\ [][~Resumed => Forward]_vars

\* the cave has closed and a further line has been read
C27_Witness ==
  /\ game.closed /\ game.closng /\ game.clock2 < 0
  /\ call.op = "line" /\ call.raw = <<"LOOK">>

\* C27 as stated: on every line neither flag returns to false, clock2 is
\* decremented only once closng is true, and the cave closes at most once
C27_AsStated ==
  /\ [](game.closed => game.closng)
  /\ [][/\ game.closng => game'.closng
        /\ game.closed => game'.closed
        /\ game'.clock2 = game.clock2 - 1 => game.closng
        /\ Said(out', "CAVE_CLOSED") => ~game.closed /\ game'.closed]_vars


\* the test closecheck() makes before it ticks the first clock
WellInside(g) == g.tally = 0 /\ INDEEP(g.loc) /\ g.loc # LOC_Y2

Counted(g, h) == h.clock2 = g.clock2 \/ h.clock2 = g.clock2 - 1

\* the way out and the panic from one prompt to the next
NoWayOut ==
  /\ Said(out', "EXIT_CLOSED") => game'.closng /\ game'.panic /\ game'.loc = game.loc
  /\ game.panic => game'.panic /\ Counted(game, game')
  /\ ~game.panic /\ game'.panic => game'.clock2 = PANICTIME /\ Said(out', "EXIT_CLOSED")
  /\ ~game'.panic => Counted(game, game')
  /\ call'.raw = <<"PLUGH">> /\ game.loc = LOC_Y2 /\ game'.closng /\ ~game'.closed
       /\ pc' = "prompt"
       => Said(out', "EXIT_CLOSED") /\ game'.loc = LOC_Y2

\* C29: while closng is true the player is at no outside location: the move
\* out is answered EXIT_CLOSED and the player stays; on every line but a
\* resume that is confirmed, clock2 is set to PANICTIME only by the first
\* EXIT_CLOSED (at the way out, or at the grate with the keys), and panic,
\* once true, stays true while clock2 only counts down
C29_NoWayOut ==
  /\ [](game.closng => ~OUTSIDE(game.loc))
  /\ [][call'.op = "line" /\ ~Resumed => NoWayOut]_vars

\* the grate was tried, then the magic word at Y2: the second try has left
\* the clock counting
C29_Witness ==
  /\ call.op = "line" /\ call.raw = <<"PLUGH">> /\ Said(out, "EXIT_CLOSED")
  /\ game.loc = LOC_Y2 /\ game.panic /\ game.clock2 = PANICTIME - 2

\* C29 as stated: on every line, clock2 is set to PANICTIME only while panic
\* is false, and panic stays true from then on
C29_AsStated ==
  /\ [](game.closng => ~OUTSIDE(game.loc))
  /\ [][call'.op = "line" =>
          /\ game.panic => game'.panic
          /\ Said(out', "EXIT_CLOSED") /\ game'.clock2 = PANICTIME /\ game.clock2 # PANICTIME + 1
               => ~game.panic
          /\ Said(out', "EXIT_CLOSED") => game'.loc = game.loc]_vars


(***************************************************************************)
(* Death and reincarnation                                                 *)
(***************************************************************************)
MaxDeaths == 3

\* the generator as one of the seeds leaves it
DeathSeeds == {7, 11, 12, 13}

\* the player has walked on in the dark, among the debris, having died so
\* many times before; or deep in the cave that is closing, the lamp put out
DeathDark ==
  {[setSeed(g, s) EXCEPT !.numdie = n] :
     g \in DebrisDark, s \in DeathSeeds, n \in {0, NDEATHS - 2, NDEATHS - 1}}
DeathClosing ==
  {[setSeed(g, s) EXCEPT !.objects[LAMP].prop = LAMP_DARK, !.wzdark = TRUE] :
     g \in {c \in EndClosing : c.clock2 = 40 /\ ~c.panic}, s \in DeathSeeds}

\* the file on the disk: none, or a game saved in the dark with the count
\* of deaths cheat.ts gives for more lives
DeathDisks ==
  {NoSave} \cup {savefile([g EXCEPT !.numdie = 0 - 900], SAVE_VERSION) :
                   g \in {d \in DeathDark : d.numdie = 0 /\ d.lcgX = setSeed(d, 7).lcgX}}

DeathLines == {<<"LOOK">>, <<"WEST">>, <<"EAST">>, <<"RESUME">>, <<"SEED", " ", "11">>}

InitDeath ==
  /\ travel = TallyTable
  /\ tkey = TallyTkey
  /\ game \in DeathDark \cup DeathClosing
  /\ save \in DeathDisks
  /\ out = <<>>
  /\ pc = "prompt"
  /\ call = NoLineCall

ReadDeath == ReadNamed(DeathLines, MaxDeaths, BOOLEAN, {TRUE})

NextDeath == ReadDeath \/ EndOfInput

SpecDeath == InitDeath /\ [][NextDeath]_vars

\* the line read ended in a fall into a pit
Died == call'.op = "line" /\ Said(out', "PIT_FALL")

\* C30: a death adds exactly 1 to numdie; in the cave that is closing it
\* ends the session with no question asked; a death that brings numdie to
\* NDEATHS ends the session whatever the answer; play goes on only with
\* numdie below NDEATHS, and croak() never reads beyond the obituaries
C30_Croak ==
  /\ [](pc = "prompt" => game.numdie < NDEATHS)
  /\ [](pc # "fault")
  /\ [][Died =>
          /\ game'.numdie = game.numdie + 1
          /\ game.closng => pc' = "exit" /\ ~Said(out', "obituaries.query")
          /\ game'.numdie = NDEATHS => pc' = "exit"]_vars


(***************************************************************************)
(* Reincarnation: what the player who goes on finds                        *)
(***************************************************************************)
MaxRevives == 3

\* seeds of the generator
StalkSeeds == {7, 59}

\* what the player has taken in the building before walking on in the dark
keysTaken(g, taken) == IF taken THEN carry(Ctx(g), KEYS, LOC_BUILDING).g ELSE g
lampTaken(g, taken) == IF taken THEN carry(Ctx(g), LAMP, LOC_BUILDING).g ELSE g
bottleTaken(g, taken) == IF taken THEN bottled(g) ELSE g

ReviveStates ==
  {[setSeed(inDebris(bottleTaken(lampTaken(keysTaken(g, k), l), b)), s) EXCEPT !.wzdark = TRUE] :
     g \in {started}, k \in BOOLEAN, l \in BOOLEAN, b \in BOOLEAN, s \in {7, 11}}

\* the lamp is lit, and a dwarf that has seen the player stands there
ReviveStalked ==
  {[setSeed(inDebris(lampLit(Ctx(keysTaken(g, k))).g), s) EXCEPT
      !.dflag = 3, !.dwarves[1] = [seen |-> 1, loc |-> LOC_DEBRIS, oldloc |-> LOC_DEBRIS]] :
     g \in {started}, k \in BOOLEAN, s \in StalkSeeds}

ReviveLines ==
  {<<"WEST">>, <<"EAST">>, <<"CARRY", " ", "RUBY">>, <<"DROP", " ", "KEYS">>}

InitRevive ==
  /\ travel = TallyTable
  /\ tkey = TallyTkey
  /\ game \in ReviveStates \cup ReviveStalked
  /\ save = NoSave
  /\ out = <<>>
  /\ pc = "prompt"
  /\ call = NoLineCall

ReadRevive == ReadNamed(ReviveLines, MaxRevives, BOOLEAN, {FALSE})

NextRevive == ReadRevive \/ EndOfInput

SpecRevive == InitRevive /\ [][NextRevive]_vars

\* the line read ended in the knife of a dwarf
Slain == call'.op = "line" /\ Said(out', "GETS_YOU")

\* the player has died, of a fall or of a knife, and goes on
Revived == (Died \/ Slain) /\ pc' = "prompt"

\* C31: after a death followed by reincarnation nothing is carried: what
\* was carried lies at oldlc2, but the lamp, which lies dark at LOC_START,
\* and the water and the oil, which are nowhere; the player is in the
\* building, as are oldloc and newloc
C31_Reincarnated ==
  [][Revived =>
       /\ \A i \in 1..NOBJECTS : ~TOTING(game', i)
       /\ \A i \in (1..NOBJECTS) \ {LAMP, WATER, OIL} :
            TOTING(game, i) => /\ game'.objects[i].place = game'.oldlc2
                               /\ OnChain(game', game'.locs[game'.oldlc2].atloc, i, ScanFuel)
       /\ TOTING(game, LAMP) => /\ game'.objects[LAMP].place = LOC_START
                                /\ game'.objects[LAMP].prop = LAMP_DARK
       /\ game'.objects[WATER].place = LOC_NOWHERE
       /\ game'.objects[OIL].place = LOC_NOWHERE
       /\ game'.loc = LOC_BUILDING
       /\ game'.oldloc = LOC_BUILDING
       /\ game'.newloc = LOC_BUILDING]_vars

\* the player who carried the lit lamp and the keys has died among the
\* debris of the knife of a dwarf, and gone on
C31_Witness ==
  /\ pc = "prompt"
  /\ Said(out, "GETS_YOU")
  /\ game.numdie = 1
  /\ game.loc = LOC_BUILDING
  /\ game.objects[LAMP].place = LOC_START
  /\ game.objects[LAMP].prop = LAMP_DARK
  /\ game.objects[KEYS].place = LOC_DEBRIS


\* ------------------------------------------------------------------------
\* The knives of the dwarves
\* ------------------------------------------------------------------------
\* the values of dflag the knives are tried with
Dflags == 2..14

\* the knife of dwarf 1, standing unmoved where the player is, with dflag d:
\* 1 when it hits, 0 when it misses
Knife(g, d) ==
  dwarfThreatens([y |-> Ctx([g EXCEPT !.dflag = d,
                                      !.dwarves[1] = [seen |-> 1, loc |-> g.loc, oldloc |-> g.loc]]),
                  attack |-> 0, stick |-> 0], 1).stick

\* the knives that have hit, as the call has told the player
KnivesHit ==
  IF PrintedNext("GETS_YOU") \/ PrintedNext("ONE_HIT") THEN 1
  ELSE IF PrintedNext("MULTIPLE_HITS")
  THEN (CHOOSE m \in {out'[k] : k \in 1..Len(out')} : m.msg = "MULTIPLE_HITS").args[1]
  ELSE 0

\* C32: a dwarf that attacks hits when the number drawn in 0..999 is below
\* 95 * (dflag - 2), with the dflag the call was entered with: what hits
\* with one dflag hits with every greater one, nothing hits with dflag 2,
\* and a call of dwarfmove() entered with dflag 2 does not answer false
C32_Knives ==
  /\ [](\A d \in Dflags :
          /\ Knife(game, d) = (IF randrange(game, 1000) < 95 * (d - 2) THEN 1 ELSE 0)
          /\ d + 1 \in Dflags => Knife(game, d) <= Knife(game, d + 1)
          /\ d = 2 => Knife(game, d) = 0
          /\ d >= 13 => Knife(game, d) = 1)
  /\ [][DwarfCall
          => /\ game.dflag = 2 => call'.ret /\ KnivesHit = 0
             /\ call'.ret <=> KnivesHit = 0
             /\ KnivesHit <= Cardinality(Attackers)]_vars

\* the first knives of the session have been thrown, in the third call,
\* entered with dflag 2, and none has hit
C32_Witness ==
  /\ call.op = "dwarfmove"
  /\ call.n = 3
  /\ call.ret
  /\ game.dflag = 3
  /\ Printed("THROWN_KNIVES")
  /\ Printed("NONE_HIT")


\* ------------------------------------------------------------------------
\* Specification SpecRoam: the same walk, in a cave where two rules of Y2
\* that are not neighbours lead to the nugget room
\* ------------------------------------------------------------------------
RoamTravel ==
  <<Rule("XYZZY", cond_goto, 0, 0, dest_goto, LOC_BUILDING, FALSE),
    Rule("DOWN", cond_goto, 0, 0, dest_goto, LOC_Y2, TRUE),
    Rule("UP", cond_goto, 0, 0, dest_goto, LOC_DEBRIS, FALSE),
    Rule("PLUGH", cond_goto, 0, 0, dest_speak, 7, FALSE),
    Rule("EAST", cond_goto, 0, 0, dest_goto, LOC_NUGGET, FALSE),
    Rule("NE", cond_goto, 0, 0, dest_goto, LOC_NUGGET, FALSE),
    Rule("WEST", cond_goto, 0, 0, dest_goto, LOC_DEADEND13, FALSE),
    Rule("SOUTH", cond_goto, 0, 0, dest_goto, LOC_NUGGET, TRUE),
    Rule("WEST", cond_goto, 0, 0, dest_goto, LOC_Y2, FALSE),
    [Rule("EAST", cond_goto, 0, 0, dest_goto, LOC_DEADEND13, TRUE) EXCEPT !.nodwarves = TRUE],
    Rule("EAST", cond_goto, 0, 0, dest_goto, LOC_Y2, FALSE),
    Rule("WEST", cond_goto, 0, 0, dest_goto, LOC_NUGGET, FALSE),
    Rule("NORTH", cond_goto, 0, 0, dest_goto, LOC_MAZEEND12, TRUE),
    Rule("SOUTH", cond_goto, 0, 0, dest_goto, LOC_DEADEND13, TRUE)>>

RoamTable == [i \in 0..Len(RoamTravel) |-> IF i = 0 THEN DummyRule ELSE RoamTravel[i]]

RoamTkey ==
  [l \in 0..NLOCATIONS |->
     CASE l = LOC_DEBRIS -> 1
       [] l = LOC_Y2 -> 3
       [] l = LOC_NUGGET -> 9
       [] l = LOC_DEADEND13 -> 11
       [] l = LOC_MAZEEND12 -> 14
       [] OTHER -> 0]

InitRoam ==
  /\ travel = RoamTable
  /\ tkey = RoamTkey
  /\ game \in DwarfStates
  /\ save = NoSave
  /\ out = <<>>
  /\ pc = "prompt"
  /\ call = NoDwarfCall

SpecRoam == InitRoam /\ [][NextDwarf]_vars

\* the rules of room l
RulesOf(l) ==
  {k \in 1..(Cardinality(DOMAIN travel) - 1) :
     /\ tkey[l] # 0
     /\ k >= tkey[l]
     /\ \A m \in tkey[l]..(k - 1) : ~travel[m].stop}

\* the rooms dwarf i may go to from where it is
MayGo(g, i) ==
  {travel[k].destval :
     k \in {k \in RulesOf(g.dwarves[i].loc) :
              /\ travel[k].desttype = dest_goto
              /\ INDEEP(travel[k].destval)
              /\ ~FORCED(travel[k].destval)
              /\ travel[k].destval # g.dwarves[i].oldloc
              /\ travel[k].destval # g.dwarves[i].loc
              /\ ~travel[k].nodwarves
              /\ ~(i = PIRATE /\ CNDBIT(travel[k].destval, COND_NOARRR))}}

\* the list dwarfmove() draws the room of dwarf i from
Tk(g, i) ==
  IF tkey[g.dwarves[i].loc] # 0 THEN tkFill(g, i, tkey[g.dwarves[i].loc], <<>>).tk ELSE <<>>

\* a call of dwarfmove() in full swing: dflag is 2 or more and the player
\* is in a room where the dwarves come
Swing ==
  /\ DwarfCall
  /\ game.dflag >= 2
  /\ game.loc # LOC_NOWHERE
  /\ ~FORCED(game.loc)
  /\ ~CNDBIT(game.newloc, COND_NOARRR)

\* the loop of dwarfmove() over the dwarves i..n
RECURSIVE dwarfLoopTo(_, _, _)
dwarfLoopTo(a, i, n) ==
  IF i > n \/ ~Running(a.y) THEN a
  ELSE dwarfLoopTo(dwarfStep(a, i), i + 1, n)

\* dwarf i as its walk leaves it, before it meets the player
Walked(g, i) ==
  dwarfWalks(dwarfLoopTo([y |-> Ctx([g EXCEPT !.dtotal = 0]), attack |-> 0, stick |-> 0],
                         1, i - 1).y.g, i).dwarves[i]

\* dwarf i is in the game and its walk leaves it unseen
Unseen(i) == game.dwarves[i].loc # 0 /\ Walked(game, i).seen = 0

\* C33: in full swing a dwarf in the game that is not seen goes to a room
\* a goto rule of its room leads to, deep, not forced, neither its room
\* nor the room it came from, by a rule open to dwarves and, for the
\* pirate, a room open to the pirate; no room is listed twice in a row;
\* with no such room the dwarf goes back to the room it came from
C33_Roams ==
  [][Swing
       => \A i \in 1..NDWARVES :
            Unseen(i)
              => /\ game'.dwarves[i].loc \in
                      (IF MayGo(game, i) = {} THEN {game.dwarves[i].oldloc} ELSE MayGo(game, i))
                 /\ game'.dwarves[i] = Walked(game, i)
                 /\ game'.dwarves[i].oldloc = game.dwarves[i].loc
                 /\ {Tk(game, i)[k] : k \in 1..Len(Tk(game, i))} = MayGo(game, i)
                 /\ \A k \in 1..(Len(Tk(game, i)) - 1) : Tk(game, i)[k] # Tk(game, i)[k + 1]]_vars

\* a dwarf nobody has seen has left the dead end for the maze end
C33_Witness ==
  /\ call.op = "dwarfmove"
  /\ game.dflag >= 2
  /\ \E i \in 1..(NDWARVES - 1) :
       /\ game.dwarves[i].seen = 0
       /\ game.dwarves[i].loc = LOC_MAZEEND12
       /\ game.dwarves[i].oldloc = LOC_DEADEND13

\* C33 as stated: no room is listed twice, and with no room to go to the
\* dwarf stays where it is
C33_AsStated ==
  [][Swing
       => \A i \in 1..NDWARVES :
            Unseen(i)
              => /\ game'.dwarves[i].loc \in
                      (IF MayGo(game, i) = {} THEN {game.dwarves[i].loc} ELSE MayGo(game, i))
                 /\ \A k, m \in 1..Len(Tk(game, i)) : k # m => Tk(game, i)[k] # Tk(game, i)[m]]_vars


(***************************************************************************)
(* Dwarves out of the game                                                 *)
(***************************************************************************)
MaxHaunts == 4

\* three deep rooms and the maze end, and the two rooms of the end game
HauntTravel ==
  <<Rule("EAST", cond_goto, 0, 0, dest_goto, LOC_NUGGET, FALSE),
    Rule("SOUTH", cond_goto, 0, 0, dest_goto, LOC_DEADEND13, TRUE),
    Rule("WEST", cond_goto, 0, 0, dest_goto, LOC_Y2, FALSE),
    Rule("SOUTH", cond_goto, 0, 0, dest_goto, LOC_DEADEND13, TRUE),
    Rule("NORTH", cond_goto, 0, 0, dest_goto, LOC_NUGGET, FALSE),
    Rule("WEST", cond_goto, 0, 0, dest_goto, LOC_Y2, TRUE),
    Rule("SOUTH", cond_goto, 0, 0, dest_goto, LOC_DEADEND13, TRUE),
    Rule("SW", cond_goto, 0, 0, dest_goto, LOC_SW, TRUE),
    Rule("NE", cond_goto, 0, 0, dest_goto, LOC_NE, TRUE)>>

HauntTable == [i \in 0..Len(HauntTravel) |-> IF i = 0 THEN DummyRule ELSE HauntTravel[i]]

HauntTkey ==
  [l \in 0..NLOCATIONS |->
     CASE l = LOC_Y2 -> 1
       [] l = LOC_NUGGET -> 3
       [] l = LOC_DEADEND13 -> 5
       [] l = LOC_MAZEEND12 -> 7
       [] l = LOC_NE -> 8
       [] l = LOC_SW -> 9
       [] OTHER -> 0]

\* the first encounter is over: the dwarves 1..5 in gone are out of the
\* game, the others are where they were
culled(g, gone) ==
  [g EXCEPT !.dwarves = [d \in 0..NDWARVES |->
                           IF d \in gone THEN [seen |-> 0, loc |-> 0, oldloc |-> 0]
                           ELSE IF d \in 1..(NDWARVES - 1)
                           THEN [g.dwarves[d] EXCEPT !.oldloc = g.dwarves[d].loc]
                           ELSE g.dwarves[d]]]

\* deep in the cave with every treasure found, the first clock near its end
HauntStates ==
  {[culled(deepGame(g, FALSE, 340, clock1), gone) EXCEPT !.lcgX = x] :
     g \in {started}, clock1 \in {1, 3}, gone \in {{}, {1, 2}}, x \in {0, 524288, 1000000}}

HauntLines == {<<"EAST">>, <<"WEST">>, <<"SOUTH">>, <<"NORTH">>, <<"LOOK">>}

InitHaunt ==
  /\ travel = HauntTable
  /\ tkey = HauntTkey
  /\ game \in HauntStates
  /\ save = NoSave
  /\ out = <<>>
  /\ pc = "prompt"
  /\ call = NoLineCall

ReadHaunt == ReadNamed(HauntLines, MaxHaunts, BOOLEAN, {FALSE})

NextHaunt == ReadHaunt \/ EndOfInput

SpecHaunt == InitHaunt /\ [][NextHaunt]_vars

\* the dwarves that are in the game
Active(g) == {i \in 1..NDWARVES : g.dwarves[i].loc # 0}

\* the number the step has told the player in message m, 0 if it has not
ToldOf(m) ==
  IF Said(out', m)
  THEN (CHOOSE e \in {out'[k] : k \in 1..Len(out')} : e.msg = m).args[1]
  ELSE 0

\* C34: a dwarf whose loc is 0 is out of the game: no line moves it or
\* marks it seen, the dwarves the player is told of and those that throw
\* a knife are no more than the dwarves 1..5 in the game; once closng is
\* true every dwarf has loc 0, and no dwarf is met and no knife is thrown
C34_Inactive ==
  /\ [](game.closng => Active(game) = {})
  /\ [][call'.op = "line"
          => /\ \A i \in 1..NDWARVES :
                  game.dwarves[i].loc = 0
                    => /\ game'.dwarves[i].loc = 0
                       /\ game'.dwarves[i].seen = 0 \/ game'.dwarves[i].seen = game.dwarves[i].seen
             /\ ToldOf("DWARF_PACK") <= Cardinality(Active(game) \ {PIRATE})
             /\ ToldOf("THROWN_KNIVES") <= Cardinality(Active(game) \ {PIRATE})
             /\ (Said(out', "DWARF_SINGLE") \/ Said(out', "KNIFE_THROWN"))
                  => Active(game) \ {PIRATE} # {}
             /\ game.closng
                  => /\ ~Said(out', "DWARF_SINGLE") /\ ~Said(out', "DWARF_PACK")
                     /\ ~Said(out', "KNIFE_THROWN") /\ ~Said(out', "THROWN_KNIVES")
                     /\ ~Said(out', "GETS_YOU") /\ ~Said(out', "ONE_HIT")
                     /\ ~Said(out', "MULTIPLE_HITS")]_vars

\* the cave is closing and the player has walked on, to the dead end where
\* the dwarves were
C34_Witness ==
  /\ pc = "prompt"
  /\ call.raw = <<"SOUTH">>
  /\ call.n >= 3
  /\ game.closng
  /\ game.clock2 < 50
  /\ game.loc = LOC_DEADEND13
  /\ Active(game) = {}


\* ------------------------------------------------------------------------
\* Specification SpecChest: the same walk after the first encounter, the
\* pirate about, the chest hidden or found
\* ------------------------------------------------------------------------
\* the pirate has hidden the chest in the maze
chestHidden(g) == move(move(Ctx(g), CHEST, g.chloc), MESSAG, g.chloc2).g

\* the player has seen the chest there
chestSeen(g) == found(Ctx(chestHidden(g)), CHEST).g

\* and has taken it
chestTaken(g) == carry(Ctx(chestSeen(g)), CHEST, g.chloc).g

\* the player stands at Y2 with the lamp lit, with or without the ruby,
\* two dwarves out of the game
ChestStates ==
  UNION {{g, chestHidden(g), chestSeen(g), chestTaken(g)} :
           g \in {[culled(d, {1, 2}) EXCEPT !.loc = LOC_Y2, !.newloc = LOC_Y2,
                                           !.oldloc = LOC_DEBRIS, !.dflag = 2] :
                    d \in DwarfStates}}

InitChest ==
  /\ travel = DwarfTable
  /\ tkey = DwarfTkey
  /\ game \in ChestStates
  /\ save = NoSave
  /\ out = <<>>
  /\ pc = "prompt"
  /\ call = NoDwarfCall

SpecChest == InitChest /\ [][NextDwarf]_vars

\* what the pirate moves: the treasures, the chest among them, and the
\* message
Booty == {t \in 1..NOBJECTS : WorldObjects[t].isTreasure} \cup {MESSAG}

\* C35: once the chest is found the pirate leaves the player alone: a call
\* of dwarfmove() moves no treasure, not the chest and not the message,
\* and prints no message of the pirate; and the pirate is never among the
\* dwarves the call counts in dtotal, nor among those that attack
C35_Ignored ==
  [][DwarfCall
       => /\ ~OBJECT_IS_NOTFOUND(game, CHEST)
               => /\ \A t \in Booty : game'.objects[t] = game.objects[t]
                  /\ game'.holdng = game.holdng
                  /\ game'.link = game.link
                  /\ ~PrintedNext("PIRATE_SPOTTED")
                  /\ ~PrintedNext("PIRATE_RUSTLES")
                  /\ ~PrintedNext("PIRATE_POUNCES")
          /\ Swing
               => /\ game'.dtotal =
                       Cardinality({i \in 1..(NDWARVES - 1) :
                                      game.dwarves[i].loc # 0 /\ game'.dwarves[i].seen # 0})
                  /\ KnivesThrown <= Cardinality(Attackers)]_vars

\* the pirate has come upon the player, who carries the chest, found, and
\* nothing was taken
C35_Witness ==
  /\ call.op = "dwarfmove"
  /\ game.dflag >= 2
  /\ OBJECT_IS_FOUND(game, CHEST)
  /\ TOTING(game, CHEST)
  /\ game.dwarves[PIRATE].seen = 1
  /\ game.dwarves[PIRATE].loc = game.loc
  /\ game.dtotal = 0


(***************************************************************************)
(* Hints: the counts of turns, the offer, the hint used                    *)
(***************************************************************************)
MaxPrompts == 4

\* the rooms the player comes to: the building carries the bit of no
\* hint, the road that of the cave, the plover room that of the dark, the
\* dead end that of the maze
HintRooms == {LOC_BUILDING, LOC_START, LOC_PLOVER, LOC_DEADEND13}

\* initialise(): every hint unused, its count zero
freshHints == [h \in 1..Len(hints) |-> [used |-> FALSE, lc |-> 0]]

\* the emerald seen
emeraldSeen(g, seen) == IF seen THEN [g EXCEPT !.objects[EMERALD].prop = STATE_FOUND] ELSE g

\* the game of the first prompt with its hints, the keys and the lamp
\* taken or not, the emerald seen or not
HintStates ==
  {[emeraldSeen(lampTaken(keysTaken(g, k), k), e) EXCEPT !.hints = freshHints] :
     g \in {started}, k \in BOOLEAN, e \in BOOLEAN}

NoHintCall == [op |-> "none", to |-> LOC_NOWHERE, yes1 |-> FALSE, yes2 |-> FALSE,
               eof |-> FALSE, n |-> 0]

InitHint ==
  /\ travel = TallyTable
  /\ tkey = TallyTkey
  /\ game \in HintStates
  /\ save = NoSave
  /\ out = <<>>
  /\ pc = "prompt"
  /\ call = NoHintCall

\* the player has come to the room to, and the loop comes to its prompt:
\* checkhints() is called, the questions it asks are answered yes1 and
\* yes2, or the input has ended
Prompted ==
  /\ pc = "prompt"
  /\ call.n < MaxPrompts
  /\ \E to \in HintRooms, yes1 \in BOOLEAN, yes2 \in BOOLEAN, eof \in BOOLEAN :
       /\ \E y \in {checkhintsAsked(
                      [Ctx([game EXCEPT !.oldlc2 = game.oldloc, !.oldloc = game.loc,
                                        !.loc = to, !.newloc = to])
                         EXCEPT !.eof = eof], yes1, yes2)} :
            /\ game' = y.g
            /\ out' = y.out
            /\ pc' = IF Running(y) THEN "prompt" ELSE y.st
       /\ call' = [op |-> "hints", to |-> to, yes1 |-> yes1, yes2 |-> yes2,
                   eof |-> eof, n |-> call.n + 1]
  /\ UNCHANGED <<save, travel, tkey>>

NextHint == Prompted

SpecHint == InitHint /\ [][NextHint]_vars

HintCall == call'.op = "hints" /\ call'.n = call.n + 1

HintNumbers == 0..(Len(hints) - 1)
Unused(h) == ~game.hints[h + 1].used
Count(h) == game.hints[h + 1].lc
\* the room of the prompt carries the bit of hint h
Carries(h) == CNDBIT(game'.loc, h + 1 + COND_HBASE)
\* the room of the prompt carries the bit of some hint
HintRoom == \E b \in conditions(game'.loc) : b >= COND_HBASE
Offered(h) == PrintedNext(hints[h + 1].question)
\* hint h, at its count of turns, has ended the call: its own test has
\* failed, or its question was not answered with yes
Ended(h) ==
  /\ Unused(h)
  /\ Carries(h)
  /\ Count(h) + 1 >= hints[h + 1].turns
  /\ ~(Offered(h) /\ call'.yes1 /\ pc' = "prompt")
\* the call comes to hint h
Reached(h) == HintRoom /\ \A k \in HintNumbers : k < h => ~Ended(k)

\* C36: at a prompt, for every hint not yet used that the call of
\* checkhints() comes to, the count is zero when the room does not carry
\* the bit of the hint, and one more than it was while the room carries it
\* and the count of turns is not reached; in a room that carries the bit of
\* no hint, and for the hints after one that ends the call, the counts stay
\* as they were; the hint is offered only in a room that carries its bit,
\* with the count at its turns, and the count is then zero; a hint is
\* marked used exactly when both questions are answered with yes, and a
\* hint used is never offered again, nor is its count touched
C36_Hints ==
  [][HintCall =>
       \A h \in HintNumbers :
         /\ ~Unused(h) => game'.hints[h + 1] = game.hints[h + 1] /\ ~Offered(h)
         /\ Unused(h) =>
              /\ ~HintRoom => game'.hints[h + 1] = game.hints[h + 1]
              /\ ~Reached(h) => game'.hints[h + 1] = game.hints[h + 1]
              /\ Reached(h) /\ ~Carries(h) => game'.hints[h + 1].lc = 0
              /\ Reached(h) /\ Carries(h) /\ Count(h) + 1 < hints[h + 1].turns
                   => game'.hints[h + 1].lc = Count(h) + 1
              /\ Offered(h) => /\ Reached(h) /\ Carries(h)
                               /\ Count(h) + 1 >= hints[h + 1].turns
                               /\ game'.hints[h + 1].lc = 0
              /\ game'.hints[h + 1].used
                   <=> Offered(h) /\ call'.yes1 /\ call'.yes2 /\ ~call'.eof]_vars

\* the hint of the dark was offered at this prompt and accepted, and the
\* lamp pays for it
C36_Witness ==
  /\ call.op = "hints"
  /\ call.to = LOC_PLOVER
  /\ Said(out, "DARK_QUESTION")
  /\ Said(out, "DARK_HINT")
  /\ game.hints[5].used
  /\ game.hints[5].lc = 0
  /\ game.limit > createGameState.limit

\* C36 as stated: the count of every hint not yet used is reset at every
\* prompt in a room that does not carry the bit of the hint
C36_AsStated ==
  [][HintCall =>
       \A h \in HintNumbers :
         Unused(h) =>
           /\ ~Carries(h) => game'.hints[h + 1].lc = 0
           /\ Carries(h) /\ Count(h) + 1 < hints[h + 1].turns
                => game'.hints[h + 1].lc = Count(h) + 1]_vars


(***************************************************************************)
(* doCommand() step by step: the command, its state, the phase codes       *)
(***************************************************************************)
\* CommandState
EMPTY == 0
GIVEN == 3
PREPROCESSED == 4
PROCESSING == 5
EXECUTED == 6

\* the lines read in a session the model follows
MaxPhases == 3

emptyCommandWord == Word("", "EMPTY", NO_OBJECT)

\* the command doCommand() starts with
newCommand ==
  [part |-> "unknown", word |-> <<emptyCommandWord, emptyCommandWord>>,
   verb |-> "ACT_NULL", obj |-> NO_OBJECT, state |-> EMPTY]

\* the context with the command: what the steps of doCommand() work on
Cmd(y, cmd) == [y |-> y, cmd |-> cmd]

\* clearCommand() on the command
cleared(c) ==
  Cmd(clearCommand(c.y, c.cmd.obj),
      [c.cmd EXCEPT !.verb = "ACT_NULL", !.part = "unknown", !.obj = NO_OBJECT,
                    !.state = EMPTY])

\* preprocessCommand() on the grate said first: it is a motion, the
\* depression outside, the entrance inside
grateWord(g, w) ==
  IF w.type = "OBJECT" /\ w.obj = GRATE
  THEN Word(IF g.loc = LOC_START THEN "DEPRESSION"
            ELSE IF g.loc = LOC_DEBRIS THEN "ENTRANCE" ELSE w.raw,
            "MOTION", NO_OBJECT)
  ELSE w

\* water or oil said with the plant that is here is poured on it; the cage
\* said with the bird, both here, is a carry
pourWord(g, word) ==
  IF /\ word[1].type = "OBJECT" /\ word[1].obj \in {WATER, OIL}
     /\ word[2].type = "OBJECT" /\ word[2].obj = PLANT /\ AT(g, PLANT)
  THEN <<Word("POUR", "ACTION", NO_OBJECT), word[1]>>
  ELSE word
cageWord(g, word) ==
  IF /\ word[1].type = "OBJECT" /\ word[1].obj = CAGE
     /\ word[2].type = "OBJECT" /\ word[2].obj = BIRD
     /\ HERE(g, CAGE) /\ HERE(g, BIRD)
  THEN <<Word("CARRY", "ACTION", NO_OBJECT), word[2]>>
  ELSE word

\* preprocessCommand(): the command stays as given on "enter stream", and
\* is preprocessed otherwise
preprocessCommand(c) ==
  IF enterWater(c.cmd.word) THEN Cmd(wet(c.y), c.cmd)
  ELSE IF c.cmd.word[1].type = "OBJECT"
  THEN LET w1 == verbFirst(c.cmd.word)
           w2 == <<grateWord(c.y.g, w1[1]), w1[2]>>
       IN Cmd(c.y, [c.cmd EXCEPT !.word = cageWord(c.y.g, pourWord(c.y.g, w2)),
                                 !.state = PREPROCESSED])
  ELSE Cmd(c.y, [c.cmd EXCEPT !.state = PREPROCESSED])

\* action() on the command: the result carries the command, whose part
\* action() may change
RetCmd(r, cmd) == [y |-> r.y, code |-> r.code, cmd |-> cmd]

actionKnown(y, cmd, yes, named) ==
  IF cmd.part = "intransitive" /\ cmd.word[2].raw # ""
  THEN RetCmd(Ret(y, GO_WORD2), cmd)
  ELSE IF cmd.part = "intransitive" /\ (cmd.obj = NO_OBJECT \/ cmd.obj = INTRANSITIVE)
  THEN RetCmd(intransitive(y, cmd.verb, yes, named), cmd)
  ELSE IF cmd.part = "unknown"
  THEN RetCmd(Ret(speak(y, "WHAT_DO", <<cmd.obj>>), GO_CHECKHINT), cmd)
  ELSE IF cmd.verb = "SEED" /\ cmd.word[2].type = "NUMERIC"
  THEN RetCmd(seed(y, cmd.verb, numerals[cmd.word[2].raw]), cmd)
  ELSE RetCmd(transitive(y, cmd.verb, cmd.obj), cmd)

actionOf(y, cmd, yes, named) ==
  IF ~Running(y) THEN RetCmd(Ret(y, GO_TERMINATE), cmd)
  ELSE IF cmd.part = "unknown"
  THEN IF InSight(y.g, cmd.obj)
       THEN actionKnown(y, IF cmd.verb # "ACT_NULL"
                           THEN [cmd EXCEPT !.part = "transitive"] ELSE cmd, yes, named)
       ELSE RetCmd(Ret(speak(y, "NO_SEE", <<cmd.obj>>), GO_CLEAROBJ), cmd)
  ELSE actionKnown(y, cmd, yes, named)

\* the switch of doCommand() on the phase code, with GO_TOP taken for a
\* command executed
phase_executed(r) ==
  CASE r.code = GO_TERMINATE -> Cmd(r.y, [r.cmd EXCEPT !.state = EXECUTED])
    [] r.code = GO_MOVE -> Cmd(playermove(r.y, "NUL"), [r.cmd EXCEPT !.state = EXECUTED])
    [] r.code = GO_WORD2 ->
         Cmd(r.y, [r.cmd EXCEPT !.word = <<r.cmd.word[2], emptyCommandWord>>,
                                !.state = PREPROCESSED])
    [] r.code = GO_UNKNOWN ->
         Cmd(rspeak(r.y, "DO_WHAT"), [r.cmd EXCEPT !.obj = NO_OBJECT, !.state = GIVEN])
    [] r.code = GO_CHECKHINT -> Cmd(r.y, [r.cmd EXCEPT !.state = GIVEN])
    [] r.code = GO_DWARFWAKE ->
         Cmd(terminate(rspeak(r.y, "DWARVES_AWAKEN"), endgame), r.cmd)
    [] r.code = GO_CLEAROBJ -> cleared(Cmd(r.y, r.cmd))
    [] r.code = GO_TOP -> Cmd(r.y, [r.cmd EXCEPT !.state = EXECUTED])
    [] OTHER -> Cmd(bug(r.y, "ACTION_RETURNED_PHASE_CODE_BEYOND_END_OF_SWITCH"), r.cmd)

\* the switch of doCommand() on the phase code action() has returned
phase(r) ==
  CASE r.code = GO_TERMINATE -> Cmd(r.y, [r.cmd EXCEPT !.state = EXECUTED])
    [] r.code = GO_MOVE -> Cmd(playermove(r.y, "NUL"), [r.cmd EXCEPT !.state = EXECUTED])
    [] r.code = GO_WORD2 ->
         Cmd(r.y, [r.cmd EXCEPT !.word = <<r.cmd.word[2], emptyCommandWord>>,
                                !.state = PREPROCESSED])
    [] r.code = GO_UNKNOWN ->
         Cmd(rspeak(r.y, "DO_WHAT"), [r.cmd EXCEPT !.obj = NO_OBJECT, !.state = GIVEN])
    [] r.code = GO_CHECKHINT -> Cmd(r.y, [r.cmd EXCEPT !.state = GIVEN])
    [] r.code = GO_DWARFWAKE ->
         Cmd(terminate(rspeak(r.y, "DWARVES_AWAKEN"), endgame), r.cmd)
    [] r.code = GO_CLEAROBJ -> cleared(Cmd(r.y, r.cmd))
    [] r.code = GO_TOP -> Cmd(r.y, r.cmd)
    [] OTHER -> Cmd(bug(r.y, "ACTION_RETURNED_PHASE_CODE_BEYOND_END_OF_SWITCH"), r.cmd)

\* one turn of the loop over the words of the command: the result carries
\* the phase code of action(), or NoCode when action() was not called
NoCode == 0 - 1
Word0(c, code) == [y |-> c.y, cmd |-> c.cmd, code |-> code]

processWord(y, cmd, yes, named) ==
  LET c0 == Cmd(westHint(y, [id |-> cmd.word[1].raw]), [cmd EXCEPT !.state = PROCESSING])
      w == cmd.word[1]
      c1 == IF w.type = "OBJECT"
            THEN [c0.cmd EXCEPT !.part = "unknown", !.obj = w.obj]
            ELSE [c0.cmd EXCEPT !.part = IF cmd.word[2].type = "NUMERIC"
                                         THEN "transitive" ELSE "intransitive",
                                !.verb = w.raw]
      r == actionOf(c0.y, c1, yes, named)
  IN IF w.type = "NONE" \/ w.type = "NUMERIC"
     THEN Word0(cleared(Cmd(rspeak(y, "DONT_KNOW"), [cmd EXCEPT !.state = PROCESSING])),
                NoCode)
     ELSE IF w.type = "MOTION" \/ w.type = "EMPTY"
     THEN Word0(Cmd(playermove(c0.y, IF w.type = "EMPTY" THEN "NUL" ELSE w.raw),
                    [c0.cmd EXCEPT !.state = EXECUTED]), NoCode)
     ELSE Word0(phase(r), r.code)

\* where doCommand() goes on: the conditions of its loops on the state of
\* the command
nextOf(c) ==
  IF ~Running(c.y) THEN [y |-> c.y, cmd |-> c.cmd, pc |-> c.y.st]
  ELSE IF c.cmd.state = EXECUTED THEN [y |-> c.y, cmd |-> c.cmd, pc |-> "move"]
  ELSE IF c.cmd.state = PREPROCESSED THEN [y |-> c.y, cmd |-> c.cmd, pc |-> "process"]
  ELSE IF c.cmd.state <= GIVEN THEN [y |-> toPrompt(c.y), cmd |-> c.cmd, pc |-> "prompt"]
  ELSE [y |-> c.y, cmd |-> c.cmd, pc |-> "top"]

\* a line is read: getCommandInput(), the turn counted, the command
\* preprocessed, closecheck()
commandRead(y, cmd, raw) ==
  LET r == getCommandInput(y, raw)
      p == preprocessCommand(Cmd(countTurn(r.y), [cmd EXCEPT !.word = r.word, !.state = GIVEN]))
      k == closecheck(p.y)
  IN IF ~r.given THEN [y |-> r.y, cmd |-> cmd, pc |-> "prompt"]
     ELSE IF p.cmd.state < PREPROCESSED THEN [y |-> checkhints(p.y), cmd |-> p.cmd, pc |-> "prompt"]
     ELSE IF ~Running(k.y) THEN [y |-> k.y, cmd |-> p.cmd, pc |-> k.y.st]
     ELSE IF k.ret THEN [y |-> k.y, cmd |-> p.cmd, pc |-> "move"]
     ELSE [y |-> k.y, cmd |-> p.cmd, pc |-> "process"]

\* the top of the loop of doCommand()
described(y, cmd) ==
  IF FORCED(y.g.loc)
  THEN [y |-> playermove(describeLocation(y), "HERE"), cmd |-> cmd, pc |-> "move"]
  ELSE nextOf(cleared(Cmd(listobjects(describeLocation(y)), cmd)))

\* gameLoop(): doMove() until it answers that the move is over, then
\* doCommand() with a new command
RECURSIVE moved(_, _, _)
moved(y, yes, fuel) ==
  IF ~Running(y) THEN y
  ELSE IF fuel = 0 THEN [y EXCEPT !.st = "hung"]
  ELSE IF doMove(y, yes).ret THEN doMove(y, yes).y
  ELSE moved(doMove(y, yes).y, yes, fuel - 1)

\* the player at Y2, where the plant of the reduced table grows, lamp lit,
\* the bottle of water in hand
atPlant == atSnake(lampLit(Ctx(bottled(started)))).g

\* the cave has closed; the player has gone to the south-west end and
\* taken the bird in its cage
closedSW ==
  {readLine(getCommandInput(GameCtx(g, NoSave), <<"SW">>), FALSE, FALSE).g : g \in ClosedStates}
closedBird ==
  {readLine(getCommandInput(GameCtx(g, NoSave), <<"CARRY", " ", "BIRD">>), FALSE, FALSE).g :
     g \in closedSW}

\* the cave is about to close
aboutToClose == {c \in Closing : c.clock2 = 1}

PhaseStates == {started, atPlant} \cup closedBird \cup aboutToClose

PhaseLines ==
  {<<"CARRY", " ", "LAMP">>, <<"LAMP">>, <<"DROP">>, <<"DROP", " ", "BIRD">>, <<"POUR">>,
   <<"SEED">>, <<"EAST">>, <<"FROB">>}

NoPhaseCall == [op |-> "none", cmd |-> newCommand, code |-> NoCode, n |-> 0]

\* the rooms of the lines, the nugget room a forced place that leads back
\* to Y2
PhaseTravel == [LineTravel EXCEPT ![4] = Rule("HERE", cond_goto, 0, 0, dest_goto, LOC_Y2, TRUE)]
PhaseTable == [i \in 0..Len(PhaseTravel) |-> IF i = 0 THEN DummyRule ELSE PhaseTravel[i]]

InitPhase ==
  /\ travel = PhaseTable
  /\ tkey = LineTkey
  /\ game \in PhaseStates
  /\ save = NoSave
  /\ out = <<>>
  /\ pc = "prompt"
  /\ call = NoPhaseCall

Step(r, op, code, n) ==
  /\ game' = r.y.g
  /\ out' = r.y.out
  /\ pc' = IF Running(r.y) THEN r.pc ELSE r.y.st
  /\ call' = [op |-> op, cmd |-> r.cmd, code |-> code, n |-> n]
  /\ UNCHANGED <<save, travel, tkey>>

\* getCommandInput() returns with a line
GetCommand ==
  /\ pc = "prompt"
  /\ call.n < MaxPhases
  /\ \E raw \in PhaseLines :
       Step(commandRead(Ctx(game), call.cmd, raw), "read", NoCode, call.n + 1)

\* the loop over the words of the command turns once
ProcessCommand ==
  /\ pc = "process"
  /\ \E yes \in BOOLEAN :
       \E w \in {processWord(Ctx(game), call.cmd, yes, FALSE)} :
         Step(nextOf(w), "process", w.code, call.n)

\* the loop of doCommand() is at its top
DescribeAgain ==
  /\ pc = "top"
  /\ Step(described(Ctx(game), call.cmd), "top", NoCode, call.n)

\* doCommand() has returned true: gameLoop() moves, and calls doCommand()
MoveOn ==
  /\ pc = "move"
  /\ \E yes \in BOOLEAN :
       Step([y |-> clearCommand(moved(Ctx(game), yes, MoveFuel), NO_OBJECT),
             cmd |-> newCommand, pc |-> "top"],
            "move", NoCode, call.n)

NextPhase == GetCommand \/ ProcessCommand \/ DescribeAgain \/ MoveOn

SpecPhase == InitPhase /\ [][NextPhase]_vars


ProcessStep == pc = "process" /\ call'.op = "process"

\* the verb of the command as action() is called with it
VerbNow == IF call.cmd.word[1].type = "ACTION" THEN call.cmd.word[1].raw ELSE call.cmd.verb

\* the numbers that are no phase code
OtherCodes == {0 - 1, 8, 9}

\* C37: what follows the phase code of action(): GO_TERMINATE, which no
\* verb of the reduced tables answers, the command is EXECUTED and nothing
\* else is done, no move looked up; GO_MOVE, playermove()
\* with the null motion, and the command is EXECUTED; GO_WORD2, the second
\* word is the first and the command is dispatched again, no line read;
\* GO_UNKNOWN, DO_WHAT is printed, the object cleared, the verb kept and a
\* line read; GO_CHECKHINT, a line is read; GO_CLEAROBJ, verb and object
\* are cleared and a line read; GO_TOP, the place is described again with
\* no doMove() and no dwarf moved; GO_DWARFWAKE, DWARVES_AWAKEN is printed
\* and the game ends; every other number is a fault.  And gameLoop() comes
\* to doMove() from doCommand() only with the command EXECUTED, from a
\* forced place, or when closecheck() has closed the cave, and no dwarf
\* changes place in another step
C37_Phases ==
  /\ [](\A code \in OtherCodes :
          phase([y |-> Ctx(game), code |-> code, cmd |-> call.cmd]).y.st = "fault")
  /\ [](LET c == phase([y |-> Ctx(game), code |-> GO_TERMINATE, cmd |-> call.cmd])
        IN /\ c.y = Ctx(game)
           /\ c.cmd = [call.cmd EXCEPT !.state = EXECUTED]
           /\ nextOf(c).pc = "move")
  /\ [][  /\ ProcessStep =>
                 /\ call'.code = GO_MOVE
                      => /\ call'.cmd.state = EXECUTED
                         /\ pc' = "move"
                         /\ game'.newloc = game.loc /\ game'.loc = game.loc
                 /\ call'.code = GO_WORD2
                      => /\ call'.cmd.state = PREPROCESSED
                         /\ call'.cmd.word = <<call.cmd.word[2], emptyCommandWord>>
                         /\ pc' = "process"
                         /\ call'.n = call.n
                         /\ game' = game /\ out' = <<>>
                 /\ call'.code = GO_UNKNOWN
                      => /\ PrintedNext("DO_WHAT")
                         /\ call'.cmd.obj = NO_OBJECT
                         /\ call'.cmd.verb = VerbNow /\ VerbNow # "ACT_NULL"
                         /\ call'.cmd.state = GIVEN
                         /\ pc' = "prompt"
                 /\ call'.code = GO_CHECKHINT
                      => call'.cmd.state = GIVEN /\ pc' = "prompt"
                 /\ call'.code = GO_CLEAROBJ
                      => /\ call'.cmd.verb = "ACT_NULL" /\ call'.cmd.obj = NO_OBJECT
                         /\ call'.cmd.state = EMPTY
                         /\ pc' = "prompt"
                 /\ call'.code = GO_TOP
                      => call'.cmd.state = PROCESSING /\ pc' = "top"
                 /\ call'.code = GO_DWARFWAKE
                      => PrintedNext("DWARVES_AWAKEN") /\ pc' = "exit"
                 /\ call'.code \in {GO_MOVE, GO_WORD2, GO_UNKNOWN, GO_CHECKHINT,
                                    GO_CLEAROBJ, GO_TOP, GO_DWARFWAKE, NoCode}
          /\ (pc = "top" /\ call'.op = "top")
               => /\ (PrintedNext("description.small") \/ PrintedNext("description.big")
                        \/ isDarkHere(game))
                  /\ pc' = (IF FORCED(game.loc) THEN "move" ELSE "prompt")
          /\ (pc # "move" /\ pc' = "move")
               => \/ (call'.op = "process" /\ call'.cmd.state = EXECUTED)
                  \/ (call'.op = "top" /\ FORCED(game.loc))
                  \/ (call'.op = "read" /\ game'.closed /\ ~game.closed)
          /\ pc # "move" => game'.dwarves = game.dwarves /\ game'.dflag = game.dflag]_vars

\* the verb said alone has been asked about, and the object said on the
\* next line has been dropped: the bird, in the closed cave, where the
\* snake lies, and the dwarves wake
C37_Witness ==
  /\ call.op = "process"
  /\ call.code = GO_DWARFWAKE
  /\ call.cmd.verb = "DROP"
  /\ call.cmd.word[1].raw = "BIRD"
  /\ call.cmd.word[2].raw = ""
  /\ call.n = 2
  /\ pc = "exit"


(***************************************************************************)
(* The passage between the plover room and the alcove                      *)
(***************************************************************************)
\* each of the two rooms has the one rule of the passage
PloverTravel ==
  <<Rule("WEST", cond_goto, 0, 0, dest_special, 1, TRUE),
    Rule("EAST", cond_goto, 0, 0, dest_special, 1, TRUE)>>
PloverTable == [i \in 0..Len(PloverTravel) |-> IF i = 0 THEN DummyRule ELSE PloverTravel[i]]
PloverTkey ==
  [l \in 0..NLOCATIONS |->
     CASE l = LOC_PLOVER -> 1
       [] l = LOC_ALCOVE -> 2
       [] OTHER -> 0]

\* what lies about in the room
PloverThings == {EMERALD, LAMP, KEYS}

\* the player stands in one of the two rooms, hands empty; the emerald,
\* the lamp, lit, and the keys lie there
PloverStates ==
  {[move(move(move(Ctx([initialise(createGameState, 0) EXCEPT
                          !.loc = l, !.newloc = l, !.oldloc = l, !.oldlc2 = l,
                          !.objects[LAMP].prop = LAMP_BRIGHT]),
                   EMERALD, l), LAMP, l), KEYS, l).g EXCEPT !.objects[EMERALD].prop = STATE_FOUND] :
     l \in {LOC_PLOVER, LOC_ALCOVE}}

InitPlover ==
  /\ travel = PloverTable
  /\ tkey = PloverTkey
  /\ game \in PloverStates
  /\ save = NoSave
  /\ out = <<>>
  /\ pc = "prompt"
  /\ call = [op |-> "none", object |-> NO_OBJECT, where |-> LOC_NOWHERE, n |-> 0]

\* playermove() with the motion of the command
Passage(motion) ==
  /\ pc = "prompt"
  /\ call.n < MaxOps
  /\ \E y \in {playermove(Ctx(game), motion)} :
       /\ game' = y.g
       /\ out' = y.out
       /\ pc' = IF Running(y) THEN "moved" ELSE y.st
  /\ call' = [op |-> motion, object |-> NO_OBJECT, where |-> game.loc, n |-> call.n + 1]
  /\ UNCHANGED <<travel, tkey, save>>

\* gameLoop() moves the player: doMove() until the move is over
Relocated ==
  /\ pc = "moved"
  /\ \E yes \in BOOLEAN :
       \E y \in {moved(Ctx(game), yes, MoveFuel)} :
         /\ game' = y.g
         /\ out' = y.out
         /\ pc' = IF Running(y) THEN "prompt" ELSE y.st
  /\ call' = [call EXCEPT !.op = "doMove"]
  /\ UNCHANGED <<travel, tkey, save>>

NextPlover ==
  \/ \E object \in PloverThings : Carry(object, game.loc)
  \/ \E object \in PloverThings : Drop(object, game.loc)
  \/ \E motion \in {"WEST", "EAST"} : Passage(motion)
  \/ Relocated

SpecPlover == InitPlover /\ [][NextPlover]_vars

\* playermove() has taken the rule of the passage
Passed ==
  \/ game.loc = LOC_PLOVER /\ call'.op = "WEST"
  \/ game.loc = LOC_ALCOVE /\ call'.op = "EAST"

OtherRoom(l) == IF l = LOC_PLOVER THEN LOC_ALCOVE ELSE LOC_PLOVER

\* C38: the passage sets newloc to the other of the two rooms exactly when
\* holdng is 0, or holdng is 1 and the emerald is carried, and prints
\* nothing; otherwise newloc is loc and MUST_DROP is printed; and doMove()
\* takes the player where newloc says
C38_Passage ==
  [][/\ Passed =>
          IF game.holdng = 0 \/ (game.holdng = 1 /\ TOTING(game, EMERALD))
          THEN game'.newloc = OtherRoom(game.loc) /\ game'.loc = game.loc /\ out' = <<>>
          ELSE game'.newloc = game.loc /\ game'.loc = game.loc
               /\ out' = <<Message("MUST_DROP", <<>>)>>
     /\ call'.op = "doMove" => game'.loc = game.newloc]_vars

\* the player has come into the alcove with the emerald and nothing else
C38_Witness ==
  /\ call.op = "doMove"
  /\ game.loc = LOC_ALCOVE
  /\ game.oldloc = LOC_PLOVER
  /\ TOTING(game, EMERALD)
  /\ game.holdng = 1


(***************************************************************************)
(* "Go back"                                                               *)
(***************************************************************************)
\* A map of six rooms.  The debris room, the road and the building are
\* forced locations; the alcove is a room BACK does not leave.
BackTravel ==
  <<Rule("NORTH", cond_goto, 0, 0, dest_goto, LOC_ALCOVE, FALSE),
    Rule("WEST", cond_goto, 0, 0, dest_goto, LOC_DEBRIS, FALSE),
    Rule("EAST", cond_carry, KEYS, 0, dest_goto, LOC_NUGGET, FALSE),
    Rule("EAST", cond_goto, 0, 0, dest_goto, LOC_Y2, FALSE),
    Rule("SOUTH", cond_goto, 0, 0, dest_speak, 7, TRUE),
    Rule("SOUTH", cond_goto, 0, 0, dest_goto, LOC_PLOVER, TRUE),
    Rule("HERE", cond_goto, 0, 0, dest_goto, LOC_Y2, TRUE),
    Rule("EAST", cond_goto, 0, 0, dest_goto, LOC_NUGGET, FALSE),
    Rule("WEST", cond_goto, 0, 0, dest_goto, LOC_START, FALSE),
    Rule("SOUTH", cond_goto, 0, 0, dest_goto, LOC_BUILDING, TRUE),
    Rule("HERE", cond_goto, 0, 0, dest_goto, LOC_PLOVER, TRUE),
    Rule("HERE", cond_goto, 0, 0, dest_goto, LOC_PLOVER, TRUE),
    Rule("NORTH", cond_goto, 0, 0, dest_goto, LOC_PLOVER, TRUE)>>
BackTable == [i \in 0..Len(BackTravel) |-> IF i = 0 THEN DummyRule ELSE BackTravel[i]]
BackTkey ==
  [l \in 0..NLOCATIONS |->
     CASE l = LOC_PLOVER -> 1
       [] l = LOC_ALCOVE -> 6
       [] l = LOC_DEBRIS -> 7
       [] l = LOC_Y2 -> 8
       [] l = LOC_START -> 11
       [] l = LOC_BUILDING -> 12
       [] l = LOC_NUGGET -> 13
       [] OTHER -> 0]

BackRooms == {LOC_PLOVER, LOC_ALCOVE, LOC_Y2, LOC_NUGGET}
BackMotions == {"NORTH", "SOUTH", "EAST", "WEST", "BACK"}

\* the player has been set down in one of the rooms with the lit lamp,
\* with or without the keys
BackStates ==
  {LET y1 == carry(Ctx([initialise(createGameState, 0) EXCEPT
                          !.loc = l, !.newloc = l, !.oldloc = l, !.oldlc2 = l,
                          !.objects[LAMP].prop = LAMP_BRIGHT]), LAMP, LOC_BUILDING)
   IN (IF keys THEN carry(y1, KEYS, LOC_BUILDING) ELSE y1).g :
     l \in BackRooms, keys \in BOOLEAN}

InitBack ==
  /\ travel = BackTable
  /\ tkey = BackTkey
  /\ game \in BackStates
  /\ save = NoSave
  /\ out = <<>>
  /\ pc = "prompt"
  /\ call = [op |-> "none", object |-> NO_OBJECT, where |-> LOC_NOWHERE, n |-> 0]

NextBack ==
  \/ \E motion \in BackMotions : ~FORCED(game.loc) /\ Passage(motion)
  \/ FORCED(game.loc) /\ Passage("HERE")
  \/ Relocated

SpecBack == InitBack /\ [][NextBack]_vars

Leads(te, to) == travel[te].desttype = dest_goto /\ travel[te].destval = to
\* where BACK is to go
BackTarget == IF FORCED(game.oldloc) THEN game.oldlc2 ELSE game.oldloc
\* the rules of here that lead there, and those that lead to a forced
\* location whose first rule leads there
Direct == {te \in RulesOf(game.loc) : Leads(te, BackTarget)}
Through ==
  {te \in RulesOf(game.loc) :
     /\ travel[te].desttype = dest_goto
     /\ FORCED(travel[te].destval)
     /\ Leads(tkey[travel[te].destval], BackTarget)}
Least(S) == CHOOSE te \in S : \A k \in S : te <= k
Greatest(S) == CHOOSE te \in S : \A k \in S : te >= k
\* the rule found: the first that leads there, else the last that leads
\* there through a forced location
RuleFound == IF Direct # {} THEN Least(Direct) ELSE Greatest(Through)
Stays(msg) ==
  /\ game'.newloc = game.loc
  /\ out' = <<Message(msg, <<>>)>>
  /\ game' = [game EXCEPT !.newloc = game.loc, !.oldlc2 = game.oldloc, !.oldloc = game.loc]

\* C39: BACK goes for oldloc, or for oldlc2 when oldloc is a forced
\* location.  Where BACK is not allowed it prints TWIST_TURN; when the
\* target is the current location, FORGOT_PATH; when no rule of the current
\* location leads to the target, directly or through a forced location
\* whose first rule leads to it, NOT_CONNECTED; in these cases the player
\* stays.  Otherwise the motion of the rule found is taken as an ordinary
\* move.  In every case oldlc2 becomes the former oldloc and oldloc the
\* current location.
C39_Back ==
  [][call'.op = "BACK" =>
       /\ game'.oldlc2 = game.oldloc
       /\ game'.oldloc = game.loc
       /\ game'.loc = game.loc
       /\ IF CNDBIT(game.loc, COND_NOBACK) THEN Stays("TWIST_TURN")
          ELSE IF BackTarget = game.loc THEN Stays("FORGOT_PATH")
          ELSE IF Direct \cup Through = {} THEN Stays("NOT_CONNECTED")
          ELSE LET y == playermove(Ctx(game), travel[RuleFound].motion)
               IN game' = y.g /\ out' = y.out /\ pc' = "moved"]_vars

\* BACK at Y2, reached from the plover room through the debris room, has
\* taken the way south through the building
C39_Witness ==
  /\ call.op = "BACK"
  /\ pc = "moved"
  /\ game.loc = LOC_Y2
  /\ game.oldlc2 = LOC_DEBRIS
  /\ game.newloc = LOC_BUILDING


(***************************************************************************)
(* CARRY with no object named                                              *)
(***************************************************************************)
\* the chain of the player's location holds one entry and no dwarf is
\* there: vcarry() takes the entry for the object
TakesTheOnly ==
  /\ game.locs[game.loc].atloc # NO_OBJECT
  /\ game.link[game.locs[game.loc].atloc] = 0
  /\ atdwrf(game, game.loc) <= 0

\* C40: when CARRY is said with no object and the chain of the location
\* holds exactly one entry, the entry taken is an object id, never above
\* NOBJECTS, and the command ends without a read beyond the object table
C40_RealObject ==
  [][(call'.op = "line" /\ call'.raw = <<"CARRY">> /\ TakesTheOnly) =>
       /\ game.locs[game.loc].atloc <= NOBJECTS
       /\ pc' # "fault"]_vars

============================================================================
